---------------------------- MODULE Spec2Model ----------------------------
(***************************************************************************)
(* A model of the StylusOne EPG scripts (src/scripts/*.py).  Every script  *)
(* is one sequential process per invocation: fetch, extract, normalise,    *)
(* build an XMLTV tree, write a file, exit.  One behaviour of the model is *)
(* one invocation of one script; `script` says which.                      *)
(*                                                                         *)
(* Text is modelled as a sequence of one-character strings, so that        *)
(* str.upper(), the `in` substring test, strftime and fromisoformat are    *)
(* computed and not assumed.  A datetime is a record                       *)
(*   [date |-> days since 2025-01-01, secs |-> second of the day,          *)
(*    aware |-> whether it carries a tzinfo, off |-> UTC offset, minutes]. *)
(* An operation that may raise returns [ok |-> FALSE, ...] for the raise.  *)
(***************************************************************************)
EXTENDS Integers, Sequences, FiniteSets, TLC

VARIABLES
    script,     \* which script this invocation runs
    pc,         \* position in the script's main()
    loc,        \* the local variables of main() and of the scraper object
    root,       \* the XMLTV tree under construction (tv root and children)
    output,     \* the file at the requested output path (NoOutput before a write)
    exit_code,  \* the process exit status (Running until the process ends)
    error,      \* why main gave up: "none", "exception" (an exception reached
                \* main's handler or escaped main), "login" (login() was False)
    calls       \* the HTTP requests, sleeps and browser shutdowns issued so
                \* far, in order

vars == <<script, pc, loc, root, output, exit_code, error, calls>>

Get(url)   == [op |-> "GET", url |-> url]
Post(url)  == [op |-> "POST", url |-> url]
Sleep(sec) == [op |-> "sleep", url |-> sec]
Quit       == [op |-> "quit", url |-> "driver"]

Running == "Running"

----------------------------------------------------------------------------
(* Bounds of the model.                                                    *)

MaxFeedElems == 2   \* channel and programme elements in a fetched EPGShare feed
MaxGuidePrograms == 1   \* programme records found on the guide pages of a run
MaxTvEntries == 1   \* entries in a schedule the TVMaze API returns

----------------------------------------------------------------------------
(* Text.                                                                   *)

LowerAlpha == <<"a","b","c","d","e","f","g","h","i","j","k","l","m",
                "n","o","p","q","r","s","t","u","v","w","x","y","z">>
UpperAlpha == <<"A","B","C","D","E","F","G","H","I","J","K","L","M",
                "N","O","P","Q","R","S","T","U","V","W","X","Y","Z">>
DigitChars == <<"0","1","2","3","4","5","6","7","8","9">>

UpperChar(c) ==
    IF \E k \in 1..26 : LowerAlpha[k] = c
    THEN UpperAlpha[CHOOSE k \in 1..26 : LowerAlpha[k] = c]
    ELSE c

\* a lookup that compares text as it stands
UpperNoFold(s) == s

\* str.upper()
Upper(s) == [k \in 1..Len(s) |-> UpperChar(s[k])]

\* needle in hay
Contains(hay, needle) ==
    \E k \in 0..(Len(hay) - Len(needle)) :
        SubSeq(hay, k + 1, k + Len(needle)) = needle

\* ' '.join(parts)
RECURSIVE JoinSpace(_)
JoinSpace(parts) ==
    IF parts = <<>> THEN <<>>
    ELSE IF Len(parts) = 1 THEN parts[1]
    ELSE parts[1] \o <<" ">> \o JoinSpace(Tail(parts))

IsDigit(c) == \E k \in 1..10 : DigitChars[k] = c
DigitVal(c) == (CHOOSE k \in 1..10 : DigitChars[k] = c) - 1

Pow10(w) == IF w = 0 THEN 1 ELSE IF w = 1 THEN 10 ELSE IF w = 2 THEN 100
            ELSE 1000

\* n rendered with at least w digits, zero padded (%Y, %m, %d, %H, %M, %S)
Pad(n, w) == [k \in 1..w |-> DigitChars[((n \div Pow10(w - k)) % 10) + 1]]

\* the number spelled by the digits s[from..to]
RECURSIVE NumAt(_, _, _)
NumAt(s, from, to) ==
    IF to < from THEN 0
    ELSE NumAt(s, from, to - 1) * 10 + DigitVal(s[to])

AllDigits(s, from, to) == \A k \in from..to : k \in DOMAIN s /\ IsDigit(s[k])

\* the outcome of a call that may raise: the value returned, or the raise
Raised(dflt) == [ok |-> FALSE, val |-> dflt]
Returned(v)  == [ok |-> TRUE, val |-> v]

IsSpace(c) == c \in {" ", "\n", "\t"}

\* s.strip()
RECURSIVE LStrip(_)
LStrip(s) == IF s # <<>> /\ IsSpace(Head(s)) THEN LStrip(Tail(s)) ELSE s
RECURSIVE RStrip(_)
RStrip(s) ==
    IF s # <<>> /\ IsSpace(s[Len(s)]) THEN RStrip(SubSeq(s, 1, Len(s) - 1)) ELSE s
Strip(s) == RStrip(LStrip(s))

\* the text before the first occurrence of c in s (all of s if there is none)
RECURSIVE Before(_, _)
Before(s, c) ==
    IF s = <<>> \/ Head(s) = c THEN <<>> ELSE <<Head(s)>> \o Before(Tail(s), c)

\* the text after the first occurrence of c in s (empty if there is none)
After(s, c) == SubSeq(s, Len(Before(s, c)) + 2, Len(s))

\* the first whitespace-separated word of s: s.split()[0], which raises
\* IndexError when s holds no word
FirstWord(s) ==
    IF LStrip(s) = <<>> THEN Raised(<<>>)
    ELSE Returned(Before(LStrip(s), " "))

\* int(s), which raises ValueError unless s is a run of digits
ParseInt(s) ==
    IF s # <<>> /\ AllDigits(s, 1, Len(s)) THEN Returned(NumAt(s, 1, Len(s)))
    ELSE Raised(0)

----------------------------------------------------------------------------
(* Dates and times (datetime, timedelta).  The calendar covers 2025..2027, *)
(* three years of 365 days.                                                *)

DaysBeforeMonth == <<0, 31, 59, 90, 120, 151, 181, 212, 243, 273, 304, 334>>
DaysInMonth     == <<31, 28, 31, 30, 31, 30, 31, 31, 30, 31, 30, 31>>

DateYear(date)  == 2025 + (date \div 365)
DateMonth(date) ==
    CHOOSE m \in 1..12 :
        /\ DaysBeforeMonth[m] <= date % 365
        /\ (m = 12 \/ date % 365 < DaysBeforeMonth[m + 1])
DateDay(date)   == (date % 365) - DaysBeforeMonth[DateMonth(date)] + 1

DaysFromCivil(y, m, d) == (y - 2025) * 365 + DaysBeforeMonth[m] + d - 1

DateTime(date, secs, aware, off) ==
    [date |-> date, secs |-> secs, aware |-> aware, off |-> off]

Naive(date, secs) == DateTime(date, secs, FALSE, 0)

\* dt + timedelta(seconds = s); timedelta(minutes = m) is s = 60 * m
AddSeconds(dt, s) ==
    [dt EXCEPT !.date = dt.date + ((dt.secs + s) \div 86400),
               !.secs = (dt.secs + s) % 86400]
AddMinutes(dt, m) == AddSeconds(dt, 60 * m)
AddHours(dt, h)   == AddSeconds(dt, 3600 * h)

\* dt.replace(hour = h, minute = m, second = 0, microsecond = 0), which
\* raises ValueError for an hour or a minute out of range
ReplaceHM(dt, h, m) ==
    IF h \in 0..23 /\ m \in 0..59
    THEN Returned([dt EXCEPT !.secs = h * 3600 + m * 60])
    ELSE Raised(dt)

\* dt.replace(minute = 0, second = 0, microsecond = 0)
ReplaceToHour(dt) == [dt EXCEPT !.secs = (dt.secs \div 3600) * 3600]

\* dt.date() == other.date()
SameDate(a, b) == a.date = b.date

\* a "%z" that loses the sign of the offset
FormatOffsetUnsigned(dt) ==
    IF ~dt.aware THEN <<>>
    ELSE <<"+">>
         \o Pad((IF dt.off < 0 THEN -dt.off ELSE dt.off) \div 60, 2)
         \o Pad((IF dt.off < 0 THEN -dt.off ELSE dt.off) % 60, 2)

\* strftime("%z"): empty for a naive datetime, else sign and HHMM
FormatOffset(dt) ==
    IF ~dt.aware THEN <<>>
    ELSE <<IF dt.off < 0 THEN "-" ELSE "+">>
         \o Pad((IF dt.off < 0 THEN -dt.off ELSE dt.off) \div 60, 2)
         \o Pad((IF dt.off < 0 THEN -dt.off ELSE dt.off) % 60, 2)

\* strftime("%Y%m%d%H%M%S")
FormatDigits(dt) ==
    Pad(DateYear(dt.date) \div 100, 2) \o Pad(DateYear(dt.date) % 100, 2)
    \o Pad(DateMonth(dt.date), 2) \o Pad(DateDay(dt.date), 2)
    \o Pad(dt.secs \div 3600, 2) \o Pad((dt.secs \div 60) % 60, 2)
    \o Pad(dt.secs % 60, 2)

\* dt.strftime("%Y%m%d%H%M%S %z")
Strftime_z(dt) == FormatDigits(dt) \o <<" ">> \o FormatOffset(dt)

\* dt.strftime("%Y%m%d%H%M%S +0000")
Strftime_utc_label(dt) == FormatDigits(dt) \o <<" ", "+", "0", "0", "0", "0">>

\* dt.strftime("%Y-%m-%dT%H:%M:%SZ")
Strftime_iso_z(dt) ==
    Pad(DateYear(dt.date) \div 100, 2) \o Pad(DateYear(dt.date) % 100, 2)
    \o <<"-">> \o Pad(DateMonth(dt.date), 2)
    \o <<"-">> \o Pad(DateDay(dt.date), 2)
    \o <<"T">> \o Pad(dt.secs \div 3600, 2)
    \o <<":">> \o Pad((dt.secs \div 60) % 60, 2)
    \o <<":">> \o Pad(dt.secs % 60, 2) \o <<"Z">>

\* dt.strftime('%Y-%m-%d')
Strftime_date(dt) ==
    Pad(DateYear(dt.date) \div 100, 2) \o Pad(DateYear(dt.date) % 100, 2)
    \o <<"-">> \o Pad(DateMonth(dt.date), 2)
    \o <<"-">> \o Pad(DateDay(dt.date), 2)

\* time_str.replace('Z', '+00:00')
RECURSIVE ReplaceZ(_)
ReplaceZ(s) ==
    IF s = <<>> THEN <<>>
    ELSE (IF Head(s) = "Z" THEN <<"+", "0", "0", ":", "0", "0">>
          ELSE <<Head(s)>>) \o ReplaceZ(Tail(s))

\* the date and time part "YYYY-MM-DDTHH:MM:SS" of an ISO-8601 string is valid
IsoDateTimeOk(s) ==
    /\ Len(s) >= 19
    /\ AllDigits(s, 1, 4) /\ s[5] = "-" /\ AllDigits(s, 6, 7) /\ s[8] = "-"
    /\ AllDigits(s, 9, 10) /\ s[11] = "T" /\ AllDigits(s, 12, 13)
    /\ s[14] = ":" /\ AllDigits(s, 15, 16) /\ s[17] = ":"
    /\ AllDigits(s, 18, 19)
    /\ NumAt(s, 1, 4) \in 2025..2027
    /\ NumAt(s, 6, 7) \in 1..12
    /\ NumAt(s, 9, 10) \in 1..DaysInMonth[NumAt(s, 6, 7)]
    /\ NumAt(s, 12, 13) \in 0..23
    /\ NumAt(s, 15, 16) \in 0..59
    /\ NumAt(s, 18, 19) \in 0..59

\* the offset part "+HH:MM" / "-HH:MM" at s[20..25] is valid
IsoOffsetOk(s) ==
    /\ Len(s) = 25
    /\ s[20] \in {"+", "-"}
    /\ AllDigits(s, 21, 22) /\ s[23] = ":" /\ AllDigits(s, 24, 25)
    /\ NumAt(s, 21, 22) \in 0..23
    /\ NumAt(s, 24, 25) \in 0..59

IsoDate(s) == DaysFromCivil(NumAt(s, 1, 4), NumAt(s, 6, 7), NumAt(s, 9, 10))
IsoSecs(s) == NumAt(s, 12, 13) * 3600 + NumAt(s, 15, 16) * 60 + NumAt(s, 18, 19)

\* datetime.fromisoformat(s), which raises ValueError for a malformed string
FromIsoFormat(s) ==
    IF ~IsoDateTimeOk(s) THEN Raised(Naive(0, 0))
    ELSE IF Len(s) = 19 THEN Returned(Naive(IsoDate(s), IsoSecs(s)))
    ELSE IF IsoOffsetOk(s)
    THEN Returned(DateTime(IsoDate(s), IsoSecs(s), TRUE,
                           (IF s[20] = "-" THEN -1 ELSE 1)
                               * (NumAt(s, 21, 22) * 60 + NumAt(s, 24, 25))))
    ELSE Raised(Naive(0, 0))

\* datetime.strptime(s, "%Y-%m-%dT%H:%M:%S%z"): the offset is Z, +HHMM or
\* +HH:MM, and is required
StrptimeIsoZ(s) ==
    IF ~IsoDateTimeOk(s) THEN Raised(Naive(0, 0))
    ELSE IF Len(s) = 20 /\ s[20] = "Z"
    THEN Returned(DateTime(IsoDate(s), IsoSecs(s), TRUE, 0))
    ELSE IF /\ Len(s) = 24 /\ s[20] \in {"+", "-"} /\ AllDigits(s, 21, 24)
            /\ NumAt(s, 21, 22) \in 0..23 /\ NumAt(s, 23, 24) \in 0..59
    THEN Returned(DateTime(IsoDate(s), IsoSecs(s), TRUE,
                           (IF s[20] = "-" THEN -1 ELSE 1)
                               * (NumAt(s, 21, 22) * 60 + NumAt(s, 23, 24))))
    ELSE IF IsoOffsetOk(s) THEN FromIsoFormat(s)
    ELSE Raised(Naive(0, 0))

----------------------------------------------------------------------------
(* Text constants used by the scripts and by the inputs of the model.      *)

\* text that occurs in the scripts: call signs, networks, local channel ids,
\* display names, titles
lit ==
    [ KGTV |-> <<"K","G","T","V">>,
      KFMB |-> <<"K","F","M","B">>,
      KNSD |-> <<"K","N","S","D">>,
      KSWB |-> <<"K","S","W","B">>,
      KPBS |-> <<"K","P","B","S">>,
      KUSI |-> <<"K","U","S","I">>,
      ABC |-> <<"A","B","C">>,
      CBS |-> <<"C","B","S">>,
      NBC |-> <<"N","B","C">>,
      FOX |-> <<"F","O","X">>,
      PBS |-> <<"P","B","S">>,
      KGTV_HD |-> <<"K","G","T","V","-","H","D">>,
      id_10_1 |-> <<"1","0",".","1">>,
      id_8_1 |-> <<"8",".","1">>,
      id_39_1 |-> <<"3","9",".","1">>,
      id_69_1 |-> <<"6","9",".","1">>,
      id_15_1 |-> <<"1","5",".","1">>,
      id_51_1 |-> <<"5","1",".","1">>,
      ABC_San_Diego |->
        <<"A","B","C"," ","S","a","n"," ","D","i","e","g","o">>,
      CBS_San_Diego |->
        <<"C","B","S"," ","S","a","n"," ","D","i","e","g","o">>,
      NBC_San_Diego |->
        <<"N","B","C"," ","S","a","n"," ","D","i","e","g","o">>,
      FOX_San_Diego |->
        <<"F","O","X"," ","S","a","n"," ","D","i","e","g","o">>,
      PBS_San_Diego |->
        <<"P","B","S"," ","S","a","n"," ","D","i","e","g","o">>,
      KUSI_Independent |->
        <<"K","U","S","I"," ","I","n","d","e","p","e","n","d","e","n","t">>,
      Loading |->
        <<"E","P","G"," ","D","a","t","a"," ","L","o","a","d","i","n","g",".",".",".">>,
      Morning |-> <<"M","o","r","n","i","n","g">>,
      News |-> <<"N","e","w","s">> ]

\* text that reaches the scripts from outside: channel labels, clock times
\* and titles of guide pages, ISO-8601 stamps, XMLTV times of a feed
sample ==
    [ kgtv |-> <<"k","g","t","v">>,
      ZZZZ |-> <<"Z","Z","Z","Z">>,
      KG |-> <<"K","G">>,
      t_8_00_PM |-> <<"8",":","0","0"," ","P","M">>,
      t_12_30_AM |-> <<"1","2",":","3","0"," ","A","M">>,
      t_23_30 |-> <<"2","3",":","3","0">>,
      News_sp |-> <<"N","e","w","s"," ">>,
      iso_0600_pst |->
        <<"2","0","2","5","-","0","1","-","0","1","T","0","6",":","0","0",":","0","0","-","0","8",":","0","0">>,
      iso_0700_pst |->
        <<"2","0","2","5","-","0","1","-","0","1","T","0","7",":","0","0",":","0","0","-","0","8",":","0","0">>,
      iso_1400_z |->
        <<"2","0","2","5","-","0","1","-","0","1","T","1","4",":","0","0",":","0","0","Z">>,
      iso_0600 |->
        <<"2","0","2","5","-","0","1","-","0","1","T","0","6",":","0","0",":","0","0">>,
      iso_bad |-> <<"6",":","0","0">>,
      FeedStart |->
        <<"2","0","2","5","0","1","0","1","0","6","0","0","0","0"," ","+","0","0","0","0">>,
      FeedStop |->
        <<"2","0","2","5","0","1","0","1","0","7","0","0","0","0"," ","+","0","0","0","0">> ]

\* the wall clock datetime.now() reads: naive local time
Clock == { Naive(0, 49530),     \* 2025-01-01 13:45:30
           Naive(58, 84600) }   \* 2025-02-28 23:30:00

----------------------------------------------------------------------------
(* The XMLTV tree: the tv root's source-info-name and its children in      *)
(* document order.                                                         *)

Tree(info, children) == [info |-> info, children |-> children]
EmptyTree == Tree("", <<>>)

ChannelElem(id, names) == [tag |-> "channel", id |-> id, names |-> names]
ProgrammeElem(channel, start, stop, title) ==
    [tag |-> "programme", channel |-> channel, start |-> start,
     stop |-> stop, title |-> title]

NoOutput == [written |-> FALSE, kind |-> "none", doc |-> EmptyTree]
\* open(args.output, 'w') ... write / tree.write(args.output, ...)
WriteFile(kind, doc) == [written |-> TRUE, kind |-> kind, doc |-> doc]

----------------------------------------------------------------------------
(* Serializing a document.  A document in memory is a tree of nodes: an    *)
(* element with its attribute values and child nodes, or a text node with  *)
(* its character data.  Written out, it is a sequence of tokens: a start  *)
(* tag, an end tag, an empty-element tag, the declaration, or character    *)
(* data.  Adjacent character data is one token, so that two outputs are    *)
(* the same bytes exactly when they are the same tokens.  No text of the   *)
(* scripts needs escaping.  The attributes of the tv root are literals of  *)
(* the script and are left out.                                            *)

ElemNode(tag, attrs, kids) ==
    [kind |-> "elem", tag |-> tag, attrs |-> attrs, data |-> <<>>,
     kids |-> kids]
TextNode(data) ==
    [kind |-> "text", tag |-> "", attrs |-> <<>>, data |-> data, kids |-> <<>>]

\* the element tree the scripts build with SubElement / createElement for
\* the children of a document
Dom(doc) ==
    ElemNode("tv", <<>>,
        [i \in DOMAIN doc.children |->
            LET c == doc.children[i]
            IN  IF c.tag = "channel"
                THEN ElemNode("channel", <<c.id>>,
                        [n \in DOMAIN c.names |->
                            ElemNode("display-name", <<>>,
                                     <<TextNode(c.names[n])>>)])
                ELSE ElemNode("programme", <<c.start, c.stop, c.channel>>,
                        <<ElemNode("title", <<>>, <<TextNode(c.title)>>)>>)])

Tag(k, node) == <<[k |-> k, tag |-> node.tag, attrs |-> node.attrs, data |-> <<>>]>>
Chars(data) ==
    IF data = <<>> THEN <<>>
    ELSE <<[k |-> "chars", tag |-> "", attrs |-> <<>>, data |-> data]>>

\* writing b after a
Cat(a, b) ==
    IF a # <<>> /\ b # <<>> /\ a[Len(a)].k = "chars" /\ b[1].k = "chars"
    THEN SubSeq(a, 1, Len(a) - 1) \o Chars(a[Len(a)].data \o b[1].data)
         \o Tail(b)
    ELSE a \o b

\* the outputs of a sequence of writes, one after the other
RECURSIVE CatAll(_, _, _)
CatAll(written, lo, hi) ==
    IF lo > hi THEN <<>>
    ELSE IF lo = hi THEN written[lo]
    ELSE Cat(CatAll(written, lo, (lo + hi) \div 2),
             CatAll(written, ((lo + hi) \div 2) + 1, hi))

\* the concatenation of a sequence of node lists
RECURSIVE Flatten(_, _, _)
Flatten(lists, lo, hi) ==
    IF lo > hi THEN <<>>
    ELSE IF lo = hi THEN lists[lo]
    ELSE Flatten(lists, lo, (lo + hi) \div 2)
         \o Flatten(lists, ((lo + hi) \div 2) + 1, hi)

\* xml.dom.minidom: Element.writexml and Text.writexml as
\* toprettyxml(indent = "  ", newl = "\n") calls them, with indent the
\* indentation of the node; the indentation grows by two spaces per level
RECURSIVE writexml(_, _, _)
writexml(node, newl, indent) ==
    IF node.kind = "text" THEN Chars(indent \o node.data \o newl)
    ELSE IF node.kids = <<>>
    THEN Cat(Chars(indent), Cat(Tag("empty", node), Chars(newl)))
    ELSE IF Len(node.kids) = 1 /\ node.kids[1].kind = "text"
    THEN Cat(Chars(indent),
         Cat(Tag("start", node),
         Cat(Chars(node.kids[1].data),
         Cat(Tag("end", node), Chars(newl)))))
    ELSE Cat(Chars(indent),
         Cat(Tag("start", node),
         Cat(Chars(newl),
         Cat(CatAll([i \in DOMAIN node.kids |->
                        writexml(node.kids[i], newl, indent \o <<" ", " ">>)],
                    1, Len(node.kids)),
         Cat(Chars(indent),
         Cat(Tag("end", node), Chars(newl)))))))

\* Document.toprettyxml(indent = "  "): the declaration, the DOCTYPE and the
\* root element, each followed by a newline
toprettyxml(dom) ==
    Cat(Tag("declaration", dom),
    Cat(Chars(<<"\n">>),
    Cat(Tag("doctype", dom), Cat(Chars(<<"\n">>), writexml(dom, <<"\n">>, <<>>)))))

\* "\n" + level * space
RECURSIVE Indentation(_)
Indentation(level) ==
    IF level = 0 THEN <<"\n">> ELSE Indentation(level - 1) \o <<" ", " ">>

\* xml.etree.ElementTree.indent(tree, space = "  ", level): an element with
\* child elements gets the indentation of its children before each of them
\* and its own indentation after the last, in place of missing or blank text
RECURSIVE EtIndent(_, _)
EtIndent(node, level) ==
    LET kept == SelectSeq(node.kids,
                          LAMBDA kid : kid.kind = "elem" \/ Strip(kid.data) # <<>>)
        indented ==
            [i \in DOMAIN kept |->
                IF kept[i].kind = "text" THEN <<kept[i]>>
                ELSE (IF i = 1 \/ kept[i - 1].kind = "elem"
                      THEN <<TextNode(Indentation(level + 1))>>
                      ELSE <<>>)
                     \o <<EtIndent(kept[i], level + 1)>>]
    IN  IF node.kind = "text"
           \/ ~\E i \in DOMAIN node.kids : node.kids[i].kind = "elem"
        THEN node
        ELSE [node EXCEPT !.kids =
                 Flatten(indented, 1, Len(kept))
                 \o (IF kept[Len(kept)].kind = "elem"
                     THEN <<TextNode(Indentation(level))>> ELSE <<>>)]

\* ElementTree.write: an element without text and children is written as
\* an empty-element tag
RECURSIVE EtWrite(_)
EtWrite(node) ==
    IF node.kind = "text" THEN Chars(node.data)
    ELSE IF node.kids = <<>> THEN Tag("empty", node)
    ELSE Cat(Tag("start", node),
         Cat(CatAll([i \in DOMAIN node.kids |-> EtWrite(node.kids[i])],
                    1, Len(node.kids)),
             Tag("end", node)))

\* ET.indent(tree, space = "  ", level = 0) and
\* tree.write(path, encoding = 'utf-8', xml_declaration = True)
EtSerialize(dom) ==
    Cat(Tag("declaration", dom),
        Cat(Chars(<<"\n">>), EtWrite(EtIndent(dom, 0))))

----------------------------------------------------------------------------
(* epgshare_scraper.py                                                     *)

epg_files == <<"epg_ripper_US_LOCALS2.xml.gz", "epg_ripper_US1.xml.gz",
               "epg_ripper_US_LOCALS.xml.gz">>

san_diego_channels ==
    << [call_sign |-> lit.KGTV, id |-> lit.id_10_1, name |-> lit.ABC_San_Diego],
       [call_sign |-> lit.KFMB, id |-> lit.id_8_1,  name |-> lit.CBS_San_Diego],
       [call_sign |-> lit.KNSD, id |-> lit.id_39_1, name |-> lit.NBC_San_Diego],
       [call_sign |-> lit.KSWB, id |-> lit.id_69_1, name |-> lit.FOX_San_Diego],
       [call_sign |-> lit.KPBS, id |-> lit.id_15_1, name |-> lit.PBS_San_Diego],
       [call_sign |-> lit.KUSI, id |-> lit.id_51_1, name |-> lit.KUSI_Independent] >>

\* the condition of lines 86-90 for one call sign
EpgChannelMatches(call_sign, channel_id, display_text) ==
    \/ Contains(Upper(channel_id), call_sign)
    \/ Contains(display_text, call_sign)
    \/ Contains(display_text, call_sign \o <<"-","H","D">>)
    \/ Contains(display_text, call_sign \o <<"-","D","T">>)
    \/ Contains(display_text, <<"(">> \o call_sign \o <<")">>)

\* the condition of lines 104-106 for one call sign; channel_id is upper-cased
EpgProgrammeMatches(call_sign, channel_id) ==
    \/ Contains(channel_id, call_sign)
    \/ Contains(channel_id, call_sign \o <<"-","H","D">>)
    \/ Contains(channel_id, call_sign \o <<"-","D","T">>)

\* index of the first table entry the inner for loop breaks on, 0 if none
EpgChannelIndex(channel) ==
    LET text == Upper(JoinSpace(channel.names))
        hits == { k \in DOMAIN san_diego_channels :
                    EpgChannelMatches(san_diego_channels[k].call_sign,
                                      channel.id, text) }
    IN  IF hits = {} THEN 0 ELSE CHOOSE k \in hits : \A j \in hits : k <= j

EpgProgrammeIndex(programme) ==
    LET hits == { k \in DOMAIN san_diego_channels :
                    EpgProgrammeMatches(san_diego_channels[k].call_sign,
                                        Upper(programme.channel)) }
    IN  IF hits = {} THEN 0 ELSE CHOOSE k \in hits : \A j \in hits : k <= j

\* the loop of lines 77-96: the matched channels, re-labelled, in feed order
RECURSIVE EpgFilterChannels(_)
EpgFilterChannels(channels) ==
    IF channels = <<>> THEN <<>>
    ELSE LET k == EpgChannelIndex(Head(channels))
         IN  (IF k = 0 THEN <<>>
              ELSE << [Head(channels) EXCEPT !.id = san_diego_channels[k].id] >>)
             \o EpgFilterChannels(Tail(channels))

\* found_channels after the loop of lines 77-96
EpgFoundChannels(channels) ==
    { san_diego_channels[EpgChannelIndex(channels[i])].call_sign :
        i \in { j \in DOMAIN channels : EpgChannelIndex(channels[j]) # 0 } }

\* the loop of lines 99-111
RECURSIVE EpgFilterProgrammes(_)
EpgFilterProgrammes(programmes) ==
    IF programmes = <<>> THEN <<>>
    ELSE LET k == EpgProgrammeIndex(Head(programmes))
         IN  (IF k = 0 THEN <<>>
              ELSE << [Head(programmes) EXCEPT
                          !.channel = san_diego_channels[k].id] >>)
             \o EpgFilterProgrammes(Tail(programmes))

\* filter_san_diego_channels(xmltv_content): [some |-> FALSE] is None
filter_CountingProgrammes(content) ==
    IF ~content.parses THEN [some |-> FALSE, doc |-> EmptyTree]
    ELSE IF EpgFoundChannels(content.channels) = {}
            /\ EpgFilterProgrammes(content.programmes) = <<>>
    THEN [some |-> FALSE, doc |-> EmptyTree]
    ELSE [some |-> TRUE,
          doc  |-> Tree("EPGShare San Diego",
                        EpgFilterChannels(content.channels)
                        \o EpgFilterProgrammes(content.programmes))]

filter_san_diego_channels(content) ==
    IF ~content.parses THEN [some |-> FALSE, doc |-> EmptyTree]
    ELSE IF EpgFoundChannels(content.channels) = {}
    THEN [some |-> FALSE, doc |-> EmptyTree]
    ELSE [some |-> TRUE,
          doc  |-> Tree("EPGShare San Diego",
                        EpgFilterChannels(content.channels)
                        \o EpgFilterProgrammes(content.programmes))]

\* the fallback document of lines 153-171
EpgFallback(now1, now2) ==
    Tree("EPGShare San Diego Fallback",
         << ChannelElem(lit.id_10_1, <<lit.ABC_San_Diego>>),
            ChannelElem(lit.id_8_1,  <<lit.CBS_San_Diego>>),
            ChannelElem(lit.id_39_1, <<lit.NBC_San_Diego>>),
            ChannelElem(lit.id_69_1, <<lit.FOX_San_Diego>>),
            ProgrammeElem(lit.id_10_1, Strftime_z(now1),
                          Strftime_z(AddHours(now2, 1)), lit.Loading) >>)

\* the inputs: channel and programme elements of a fetched feed

FeedChannelElems ==
    { ChannelElem(lit.KGTV, <<lit.ABC>>),
      ChannelElem(sample.kgtv, <<>>),
      ChannelElem(lit.KGTV_HD, <<lit.ABC, lit.ABC_San_Diego>>),
      ChannelElem(sample.ZZZZ, <<sample.KG>>),
      ChannelElem(lit.KFMB, <<sample.kgtv>>) }

FeedProgrammeElems ==
    { ProgrammeElem(c, sample.FeedStart, sample.FeedStop, <<"o","n"," ">> \o c) :
        c \in {lit.KGTV, sample.kgtv, lit.KGTV_HD, sample.ZZZZ, sample.KG, lit.KFMB} }

SeqsUpTo(S, n) == UNION { [1..k -> S] : k \in 0..n }

EpgParsedContents ==
    { [parses |-> TRUE, channels |-> cs, programmes |-> ps] :
             cs \in SeqsUpTo(FeedChannelElems, MaxFeedElems),
             ps \in SeqsUpTo(FeedProgrammeElems, MaxFeedElems) }

\* a response body: unparsable text, or a feed whose channel ids are distinct
EpgContents ==
    { [parses |-> FALSE, channels |-> <<>>, programmes |-> <<>>] }
    \cup { c \in EpgParsedContents :
             /\ Len(c.channels) + Len(c.programmes) <= MaxFeedElems
             /\ \A i, j \in DOMAIN c.channels :
                    c.channels[i].id = c.channels[j].id => i = j }

EpgInit ==
    /\ script = "epgshare"
    /\ pc = "fetch"
    /\ loc = [i |-> 1,
              results |-> <<>>,
              xmltv_content |-> [parses |-> FALSE, channels |-> <<>>,
                                 programmes |-> <<>>],
              filtered_content |-> [some |-> FALSE, doc |-> EmptyTree]]
    /\ root = EmptyTree
    /\ output = NoOutput
    /\ exit_code = Running
    /\ error = "none"
    /\ calls = <<>>

\* one iteration of the for loop of fetch_epgshare_data (lines 22-42), and
\* the raise of line 44 when the last candidate has failed
EpgFetch ==
    /\ script = "epgshare" /\ pc = "fetch"
    /\ calls' = Append(calls, Get(epg_files[loc.i]))
    /\ \/ \E content \in EpgContents :
            /\ loc' = [loc EXCEPT !.xmltv_content = content,
                                  !.results = Append(@, "content")]
            /\ pc' = "filter"
            /\ UNCHANGED <<exit_code, error>>
       \/ /\ loc.i < Len(epg_files)
          /\ loc' = [loc EXCEPT !.i = loc.i + 1,
                                !.results = Append(@, "failed")]
          /\ UNCHANGED <<pc, exit_code, error>>
       \/ /\ loc.i = Len(epg_files)
          /\ loc' = [loc EXCEPT !.results = Append(@, "failed")]
          /\ pc' = "done"
          /\ exit_code' = "1"
          /\ error' = "exception"
    /\ UNCHANGED <<script, root, output>>

\* main, line 139
EpgFilter ==
    /\ script = "epgshare" /\ pc = "filter"
    /\ loc' = [loc EXCEPT
                 !.filtered_content = filter_san_diego_channels(loc.xmltv_content)]
    /\ root' = loc'.filtered_content.doc
    /\ pc' = "write"
    /\ UNCHANGED <<script, output, exit_code, error, calls>>

\* main, lines 141-174: the filtered document or the fallback document
EpgWrite ==
    /\ script = "epgshare" /\ pc = "write"
    /\ \/ /\ loc.filtered_content.some
          /\ output' = WriteFile("xmltv", loc.filtered_content.doc)
       \/ /\ ~loc.filtered_content.some
          /\ \E now1 \in Clock : \E tick \in {0, 1} :
                output' = WriteFile("xmltv",
                                    EpgFallback(now1, AddSeconds(now1, tick)))
    /\ pc' = "done"
    /\ exit_code' = "0"
    /\ UNCHANGED <<script, loc, root, error, calls>>

NextEpg == EpgFetch \/ EpgFilter \/ EpgWrite


----------------------------------------------------------------------------
(* ontvtonight_auth_scraper.py                                             *)

login_url == "https://www.ontvtonight.com/user/login/"
time_periods == <<"Morning", "Afternoon", "Evening", "Late%20Night">>
\* line 105, for the default region and the date of the run
GuideUrl(period) ==
    "https://www.ontvtonight.com/guide/?region=10199&TVperiod=" \o period

channel_mappings ==
    << [call_sign |-> lit.KGTV, id |-> lit.id_10_1, name |-> lit.ABC_San_Diego],
       [call_sign |-> lit.KFMB, id |-> lit.id_8_1,  name |-> lit.CBS_San_Diego],
       [call_sign |-> lit.KNSD, id |-> lit.id_39_1, name |-> lit.NBC_San_Diego],
       [call_sign |-> lit.KSWB, id |-> lit.id_69_1, name |-> lit.FOX_San_Diego],
       [call_sign |-> lit.KPBS, id |-> lit.id_15_1, name |-> lit.PBS_San_Diego],
       [call_sign |-> lit.KUSI, id |-> lit.id_51_1, name |-> lit.KUSI_Independent],
       [call_sign |-> lit.ABC,  id |-> lit.id_10_1, name |-> lit.ABC_San_Diego],
       [call_sign |-> lit.CBS,  id |-> lit.id_8_1,  name |-> lit.CBS_San_Diego],
       [call_sign |-> lit.NBC,  id |-> lit.id_39_1, name |-> lit.NBC_San_Diego],
       [call_sign |-> lit.FOX,  id |-> lit.id_69_1, name |-> lit.FOX_San_Diego],
       [call_sign |-> lit.PBS,  id |-> lit.id_15_1, name |-> lit.PBS_San_Diego] >>

\* extract_programs_from_page, lines 170-179: the first occurrence of every
\* (channel, time, title) key, in order
RECURSIVE AuthUniqueAdjacent(_, _)
AuthUniqueAdjacent(programs, seen) ==
    IF programs = <<>> THEN <<>>
    ELSE LET prog == Head(programs)
             key  == <<prog.channel, prog.time, prog.title>>
         IN  IF key \in seen THEN AuthUniqueAdjacent(Tail(programs), seen)
             ELSE <<prog>> \o AuthUniqueAdjacent(Tail(programs), {key})

RECURSIVE AuthUnique(_, _)
AuthUnique(programs, seen) ==
    IF programs = <<>> THEN <<>>
    ELSE LET prog == Head(programs)
             key  == <<prog.channel, prog.time, prog.title>>
         IN  IF key \in seen THEN AuthUnique(Tail(programs), seen)
             ELSE <<prog>> \o AuthUnique(Tail(programs), seen \cup {key})

extract_programs_from_page(found) == AuthUnique(found, {})

\* lines 285-298: one channel element per id, named after the first call sign
\* of the table that carries the id
RECURSIVE AuthAddChannels(_, _)
AuthAddChannels(mappings, added_channels) ==
    IF mappings = <<>> THEN <<>>
    ELSE LET info == Head(mappings)
         IN  IF info.id \in added_channels
             THEN AuthAddChannels(Tail(mappings), added_channels)
             ELSE <<ChannelElem(info.id, <<info.name, info.call_sign>>)>>
                  \o AuthAddChannels(Tail(mappings),
                                     added_channels \cup {info.id})

\* the condition of line 316 for one call sign
AuthChannelMatches(call_sign, channel_name) ==
    \/ Contains(Upper(channel_name), Upper(call_sign))
    \/ Contains(Upper(call_sign), Upper(channel_name))

\* lines 314-318: index of the first entry the loop breaks on, 0 if none
AuthChannelIndex(channel_name) ==
    LET hits == { k \in DOMAIN channel_mappings :
                    AuthChannelMatches(channel_mappings[k].call_sign,
                                       channel_name) }
    IN  IF hits = {} THEN 0 ELSE CHOOSE k \in hits : \A j \in hits : k <= j

\* re.match(r'\d{1,2}:\d{2}', time_str)
AuthTimeMatches(time_str) ==
    \/ /\ Len(time_str) >= 4
       /\ IsDigit(time_str[1]) /\ time_str[2] = ":"
       /\ IsDigit(time_str[3]) /\ IsDigit(time_str[4])
    \/ /\ Len(time_str) >= 5
       /\ IsDigit(time_str[1]) /\ IsDigit(time_str[2]) /\ time_str[3] = ":"
       /\ IsDigit(time_str[4]) /\ IsDigit(time_str[5])

\* lines 334-337
AuthHour24(hour, time_str) ==
    IF Contains(Upper(time_str), <<"P","M">>) /\ hour # 12 THEN hour + 12
    ELSE IF Contains(Upper(time_str), <<"A","M">>) /\ hour = 12 THEN 0
    ELSE hour

\* lines 324-342 and 355-357: the start time, or the `continue` that a time
\* without the pattern or an exception leads to
AuthStartTime(time_str, now) ==
    IF ~AuthTimeMatches(time_str) THEN Raised(now)
    ELSE LET hour   == ParseInt(Before(time_str, ":"))
             word   == FirstWord(Before(After(time_str, ":"), ":"))
             minute == ParseInt(word.val)
         IN  IF ~hour.ok \/ ~word.ok \/ ~minute.ok THEN Raised(now)
             ELSE ReplaceHM(now, AuthHour24(hour.val, time_str), minute.val)

\* lines 305-353 for one program record: the programme elements it adds
AuthProgramme(program, now) ==
    LET title        == Strip(program.title)
        channel_name == Strip(program.channel)
        time_str     == Strip(program.time)
        k            == AuthChannelIndex(channel_name)
        start_time   == AuthStartTime(time_str, now)
    IN  IF title = <<>> \/ channel_name = <<>> THEN <<>>
        ELSE IF k = 0 THEN <<>>
        ELSE IF ~start_time.ok THEN <<>>
        ELSE <<ProgrammeElem(channel_mappings[k].id,
                             Strftime_z(start_time.val),
                             Strftime_z(AddHours(start_time.val, 1)),
                             title)>>

RECURSIVE AuthProgrammes(_, _)
AuthProgrammes(programs, now) ==
    IF programs = <<>> THEN <<>>
    ELSE AuthProgramme(Head(programs), now)
         \o AuthProgrammes(Tail(programs), now)

\* lines 302-357 over the periods of programs_data, in insertion order
RECURSIVE AuthAllProgrammes(_, _)
AuthAllProgrammes(programs_data, now) ==
    IF programs_data = <<>> THEN <<>>
    ELSE AuthProgrammes(Head(programs_data).programs, now)
         \o AuthAllProgrammes(Tail(programs_data), now)

create_xmltv_from_data(programs_data, now) ==
    Tree("OnTVTonight San Diego",
         AuthAddChannels(channel_mappings, {})
         \o AuthAllProgrammes(programs_data, now))

\* the inputs: what the page parsers find on a guide page

Program(channel, time, title) ==
    [channel |-> channel, time |-> time, title |-> title]

GuidePrograms ==
    { Program(sample.kgtv, sample.t_8_00_PM, sample.News_sp \o <<"1">>),
      Program(lit.KGTV, sample.t_23_30, sample.News_sp \o <<"2">>),
      Program(lit.KGTV_HD, sample.t_12_30_AM, sample.News_sp \o <<"3">>),
      Program(sample.ZZZZ, sample.t_8_00_PM, sample.News_sp \o <<"4">>),
      Program(sample.KG, sample.t_8_00_PM, sample.News_sp \o <<"5">>),
      Program(lit.KGTV, <<"8",":","3","0","P","M">>, sample.News_sp \o <<"6">>),
      Program(lit.KGTV, sample.t_8_00_PM, <<" ">>) }

LoginPages ==
    [form : BOOLEAN, username_field : BOOLEAN, password_field : BOOLEAN]

LoginResponses == {"logout", "login", "other"}

\* the number of programme records in all_programs
RECURSIVE AuthCount(_)
AuthCount(all_programs) ==
    IF all_programs = <<>> THEN 0
    ELSE Len(Head(all_programs).programs) + AuthCount(Tail(all_programs))

AuthInit ==
    /\ script = "ontvtonight_auth"
    /\ pc = "login"
    /\ loc = [period |-> 1, all_programs |-> <<>>,
              page |-> <<>>,          \* the login page, once fetched
              login |-> "pending"]    \* what login() returned
    /\ root = EmptyTree
    /\ output = NoOutput
    /\ exit_code = Running
    /\ error = "none"
    /\ calls = <<>>

\* login(), lines 33-47 and 85-90: fetch the login page and look for the form
AuthLoginGet ==
    /\ script = "ontvtonight_auth" /\ pc = "login"
    /\ calls' = Append(calls, Get(login_url))
    /\ \/ \* the request raises: main's handler exits with 1
          /\ pc' = "done" /\ exit_code' = "1" /\ error' = "exception"
          /\ UNCHANGED loc
       \/ \E page \in LoginPages :
            IF page.form /\ page.username_field /\ page.password_field
            THEN /\ pc' = "login_post" /\ UNCHANGED <<exit_code, error>>
                 /\ loc' = [loc EXCEPT !.page = <<page>>]
            ELSE /\ pc' = "done" /\ exit_code' = "1" /\ error' = "login"
                 /\ loc' = [loc EXCEPT !.page = <<page>>, !.login = "False"]
    /\ UNCHANGED <<script, root, output>>

\* login(), lines 68-84, and main lines 376-378: post the credentials and
\* classify the answer
AuthLoginPostThenGuide ==
    /\ script = "ontvtonight_auth" /\ pc = "login_post"
    /\ calls' = Append(calls, Post(login_url))
    /\ \/ /\ pc' = "done" /\ exit_code' = "1" /\ error' = "exception"
          /\ UNCHANGED loc
       \/ \E response \in LoginResponses :
            /\ pc' = "guide" /\ UNCHANGED <<exit_code, error>>
            /\ loc' = [loc EXCEPT !.login =
                          IF response = "login" THEN "False" ELSE "True"]
    /\ UNCHANGED <<script, root, output>>

AuthLoginPost ==
    /\ script = "ontvtonight_auth" /\ pc = "login_post"
    /\ calls' = Append(calls, Post(login_url))
    /\ \/ /\ pc' = "done" /\ exit_code' = "1" /\ error' = "exception"
          /\ UNCHANGED loc
       \/ \E response \in LoginResponses :
            IF response = "login"
            THEN /\ pc' = "done" /\ exit_code' = "1" /\ error' = "login"
                 /\ loc' = [loc EXCEPT !.login = "False"]
            ELSE /\ pc' = "guide" /\ UNCHANGED <<exit_code, error>>
                 /\ loc' = [loc EXCEPT !.login = "True"]
    /\ UNCHANGED <<script, root, output>>

\* get_tv_guide_data, one iteration of the loop of lines 103-127
AuthFetchPeriod ==
    /\ script = "ontvtonight_auth" /\ pc = "guide"
    /\ loc.period <= Len(time_periods)
    /\ \/ \* the request raises: continue without sleeping
          /\ calls' = Append(calls, Get(GuideUrl(time_periods[loc.period])))
          /\ loc' = [loc EXCEPT !.period = loc.period + 1]
       \/ \E found \in SeqsUpTo(GuidePrograms, MaxGuidePrograms) :
            LET programs == extract_programs_from_page(found)
            IN  /\ AuthCount(loc.all_programs) + Len(found) <= MaxGuidePrograms
                /\ calls' = calls \o <<Get(GuideUrl(time_periods[loc.period])),
                                       Sleep("1")>>
                /\ loc' = [loc EXCEPT
                             !.period = loc.period + 1,
                             !.all_programs =
                                 IF programs # <<>>
                                 THEN Append(loc.all_programs,
                                             [period |-> time_periods[loc.period],
                                              programs |-> programs])
                                 ELSE loc.all_programs]
    /\ UNCHANGED <<script, pc, root, output, exit_code, error>>

\* main, lines 383-402: give up without guide data, else convert and write
AuthFinish ==
    /\ script = "ontvtonight_auth" /\ pc = "guide"
    /\ loc.period > Len(time_periods)
    /\ IF loc.all_programs = <<>>
       THEN /\ exit_code' = "1"
            /\ UNCHANGED <<root, output>>
       ELSE /\ \E now \in Clock :
                 root' = create_xmltv_from_data(loc.all_programs, now)
            /\ output' = WriteFile("xmltv", root')
            /\ exit_code' = "0"
    /\ pc' = "done"
    /\ UNCHANGED <<script, loc, error, calls>>

NextAuth == AuthLoginGet \/ AuthLoginPost \/ AuthFetchPeriod \/ AuthFinish

----------------------------------------------------------------------------
(* gracenote_scraper.py                                                    *)

base_url == "https://tvlistings.gracenote.com/"
grid_url ==
    "https://tvlistings.gracenote.com/grid-affiliates.html?aid=orbebb&zipcode=92108"

\* endpoints_to_try, lines 116-121
endpoints_to_try ==
    << "https://tvlistings.gracenote.com/api/grid?zipcode=92108",
       "https://tvlistings.gracenote.com/api/listings?zip=92108",
       "https://tvlistings.gracenote.com/gapzap_webapi/api/airings?lineupId=USA-OTA-92108",
       "https://tvlistings.gracenote.com/data/listings/92108" >>

\* a value of the variable data: None or a dict with the keys in `keys`
DataNone == [kind |-> "None", keys |-> {}, channels |-> <<>>, programs |-> <<>>]
DataDict(keys, channels, programs) ==
    [kind |-> "dict", keys |-> keys, channels |-> channels,
     programs |-> programs]

\* bool(data)
Truthy(data) == data.kind = "dict" /\ data.keys # {}

\* the dict of line 108
NoListings == DataDict({"channels", "programs"}, <<>>, <<>>)

\* parse_grid_page(html_content), lines 75-112
parse_grid_page(html) ==
    IF html.kind = "broken" THEN DataNone
    ELSE IF html.kind = "script_json" THEN html.data
    ELSE NoListings

\* the loop body of lines 203-224 for one program record
GraceProgramme(program) ==
    IF program.start_time = <<>> \/ program.end_time = <<>> THEN <<>>
    ELSE LET start_dt == FromIsoFormat(ReplaceZ(program.start_time))
             end_dt   == FromIsoFormat(ReplaceZ(program.end_time))
         IN  IF start_dt.ok /\ end_dt.ok
             THEN << ProgrammeElem(program.channel_id,
                                   Strftime_z(start_dt.val),
                                   Strftime_z(end_dt.val), program.title) >>
             ELSE <<>>

RECURSIVE GraceProgrammes(_)
GraceProgrammes(programs) ==
    IF programs = <<>> THEN <<>>
    ELSE GraceProgramme(Head(programs)) \o GraceProgrammes(Tail(programs))

\* line 199: channel.get('name', channel.get('callsign', 'Unknown')); an
\* absent key is the empty text
GraceChannelName(channel) ==
    IF channel.name # <<>> THEN channel.name
    ELSE IF channel.callsign # <<>> THEN channel.callsign
    ELSE <<"U","n","k","n","o","w","n">>

\* convert_gracenote_data_to_xmltv(gracenote_data), lines 185-226
convert_gracenote_data_to_xmltv(data) ==
    IF ~Truthy(data) THEN Tree("Gracenote TV Listings", <<>>)
    ELSE Tree("Gracenote TV Listings",
              (IF "channels" \in data.keys
               THEN [k \in DOMAIN data.channels |->
                        ChannelElem(data.channels[k].id,
                                    <<GraceChannelName(data.channels[k])>>)]
               ELSE <<>>)
              \o (IF "programs" \in data.keys
                  THEN GraceProgrammes(data.programs) ELSE <<>>))

\* the inputs: JSON values a response may carry

GraceChannel(name, callsign) ==
    [id |-> lit.id_10_1, name |-> name, callsign |-> callsign]
GraceProgram(start, end) ==
    [channel_id |-> lit.id_10_1, title |-> lit.Loading,
     start_time |-> start, end_time |-> end]

JsonDicts ==
    { DataDict({}, <<>>, <<>>),
      DataDict({"channels"},
               <<GraceChannel(lit.ABC_San_Diego, lit.KGTV),
                 GraceChannel(<<>>, lit.KGTV)>>, <<>>),
      DataDict({"channels"}, <<GraceChannel(<<>>, <<>>)>>, <<>>) }
    \cup { DataDict({"channels", "programs"},
                    <<GraceChannel(lit.ABC_San_Diego, <<>>)>>,
                    <<GraceProgram(st, sample.iso_0700_pst)>>) :
             st \in {sample.iso_0600_pst, sample.iso_0700_pst, sample.iso_1400_z,
                     sample.iso_0600, sample.iso_bad, <<>>} }

\* the inputs: HTML pages
HtmlPages ==
    { [kind |-> "plain", data |-> DataNone],
      [kind |-> "broken", data |-> DataNone] }
    \cup { [kind |-> "script_json", data |-> d] : d \in JsonDicts }

GraceInit ==
    /\ script = "gracenote"
    /\ pc = "base"
    /\ loc = [grid |-> "not requested", page |-> "none", e |-> 1, results |-> <<>>, data |-> DataNone]
    /\ root = EmptyTree
    /\ output = NoOutput
    /\ exit_code = Running
    /\ error = "none"
    /\ calls = <<>>

\* main line 246: where main goes once get_tv_listings has returned data
AfterListings(data) == IF ~Truthy(data) THEN "api" ELSE "write"

\* get_tv_listings, lines 36-48 and 69-73: the base page
GraceBase ==
    /\ script = "gracenote" /\ pc = "base"
    /\ calls' = calls \o <<Sleep("2"), Get(base_url)>>
    /\ \/ pc' = "grid"
       \/ pc' = AfterListings(DataNone)   \* an exception, or a status not 200
    /\ UNCHANGED <<script, loc, root, output, exit_code, error>>

\* get_tv_listings, lines 59-73: the grid page, and parse_grid_page on it
GraceGrid ==
    /\ script = "gracenote" /\ pc = "grid"
    /\ calls' = calls \o <<Sleep("2"), Get(grid_url)>>
    /\ \/ \E html \in HtmlPages :
            /\ loc' = [loc EXCEPT !.grid = "200", !.page = html.kind,
                                  !.data = parse_grid_page(html)]
            /\ pc' = AfterListings(parse_grid_page(html))
       \/ /\ loc' = [loc EXCEPT !.grid = "failed"]
          /\ pc' = AfterListings(DataNone)
    /\ UNCHANGED <<script, root, output, exit_code, error>>

\* what one iteration of the loop of try_api_endpoints does with a response:
\* [returns |-> whether the function returns, data |-> what it returns]
ExceptionOrStatus == [returns |-> FALSE, data |-> DataNone]
JsonResponse(data) ==
    IF Truthy(data) THEN [returns |-> TRUE, data |-> data]
    ELSE [returns |-> FALSE, data |-> DataNone]
TextResponse(long, html) ==
    IF long THEN [returns |-> TRUE, data |-> parse_grid_page(html)]
    ELSE [returns |-> FALSE, data |-> DataNone]

EndpointOutcomes ==
    { [kind |-> "failed", r |-> ExceptionOrStatus] }
    \cup { [kind |-> "json", r |-> JsonResponse(d)] : d \in JsonDicts }
    \cup { [kind |-> "text", r |-> TextResponse(long, html)] :
             long \in BOOLEAN, html \in HtmlPages }

\* a loop that requests a failed endpoint again
GraceApiRetry ==
    /\ script = "gracenote" /\ pc = "api"
    /\ calls' = calls \o <<Sleep("1"), Get(endpoints_to_try[loc.e])>>
    /\ \E o \in EndpointOutcomes :
          /\ loc' = [loc EXCEPT
                       !.results = Append(@, IF o.r.returns /\ Truthy(o.r.data)
                                             THEN "data"
                                             ELSE IF o.r.returns THEN "page"
                                             ELSE "failed"),
                       !.data = o.r.data]
          /\ pc' = IF o.r.returns THEN "write" ELSE "api"
    /\ UNCHANGED <<script, root, output, exit_code, error>>

\* try_api_endpoints, lines 123-147: one iteration of the for loop
GraceApi ==
    /\ script = "gracenote" /\ pc = "api"
    /\ calls' = calls \o <<Sleep("1"), Get(endpoints_to_try[loc.e])>>
    /\ \E o \in EndpointOutcomes :
          /\ loc' = [loc EXCEPT
                       !.results = Append(@, IF o.r.returns /\ Truthy(o.r.data)
                                             THEN "data"
                                             ELSE IF o.r.returns THEN "page"
                                             ELSE "failed"),
                       !.e = IF o.r.returns \/ loc.e = Len(endpoints_to_try)
                             THEN loc.e ELSE loc.e + 1,
                       !.data = o.r.data]
          /\ pc' = IF o.r.returns \/ loc.e = Len(endpoints_to_try)
                   THEN "write" ELSE "api"
    /\ UNCHANGED <<script, root, output, exit_code, error>>

\* main, lines 250-268
GraceWrite ==
    /\ script = "gracenote" /\ pc = "write"
    /\ root' = convert_gracenote_data_to_xmltv(loc.data)
    /\ output' = WriteFile("xmltv", root')
    /\ pc' = "done"
    /\ exit_code' = "0"
    /\ UNCHANGED <<script, loc, error, calls>>

NextGrace == GraceBase \/ GraceGrid \/ GraceApi \/ GraceWrite

----------------------------------------------------------------------------
(* tvmaze_scraper.py                                                       *)

schedule_url == "http://api.tvmaze.com/schedule"

\* session.get(url, params = params)
GetWith(url, params) == [op |-> "GET", url |-> url, params |-> params]

\* parse_tvmaze_time(time_str), lines 103-113: [ok |-> FALSE] is None
parse_tvmaze_time(time_str) ==
    IF FromIsoFormat(time_str).ok THEN FromIsoFormat(time_str)
    ELSE StrptimeIsoZ(time_str)

\* entry.get('runtime', 30): an absent key is 30, a null is None
Runtime(kind, val) == [kind |-> kind, val |-> val]

\* lines 134-139: the network of an entry, or the placeholder
TvChannelName(entry) ==
    IF entry.network.some THEN entry.network.name ELSE <<"U","n","k","n","o","w","n"," ","N","e","t","w","o","r","k">>
TvChannelId(entry) ==
    IF entry.network.some THEN entry.network.id ELSE <<"u","n","k","n","o","w","n">>

\* whether the try block of lines 128-177 raises for the entry: timedelta
\* rejects a runtime of None
TvEntryRaises(entry) ==
    /\ entry.airstamp # <<>>
    /\ parse_tvmaze_time(entry.airstamp).ok
    /\ entry.runtime.kind = "null"

TvMinutes(entry) ==
    IF entry.runtime.kind = "absent" THEN 30 ELSE entry.runtime.val

\* lines 149-177: the programme of one entry, if it yields one
TvProgramme(entry) ==
    IF entry.airstamp = <<>> \/ ~parse_tvmaze_time(entry.airstamp).ok
       \/ TvEntryRaises(entry)
    THEN <<>>
    ELSE LET start_dt == parse_tvmaze_time(entry.airstamp).val
             end_dt   == AddMinutes(start_dt, TvMinutes(entry))
         IN  << ProgrammeElem(TvChannelId(entry), Strftime_z(start_dt),
                              Strftime_z(end_dt),
                              entry.show_name
                              \o (IF entry.name # <<>>
                                  THEN <<":", " ">> \o entry.name
                                  ELSE <<>>)) >>

\* the dict channels after the loop of lines 127-181, in insertion order
RECURSIVE TvChannels(_, _)
TvChannels(entries, channels) ==
    IF entries = <<>> THEN channels
    ELSE LET e == Head(entries)
             known == \E k \in DOMAIN channels : channels[k].id = TvChannelId(e)
         IN  TvChannels(Tail(entries),
                IF known
                THEN [k \in DOMAIN channels |->
                        IF channels[k].id = TvChannelId(e)
                        THEN ChannelElem(TvChannelId(e), <<TvChannelName(e)>>)
                        ELSE channels[k]]
                ELSE Append(channels,
                            ChannelElem(TvChannelId(e), <<TvChannelName(e)>>)))

RECURSIVE TvProgrammes(_)
TvProgrammes(entries) ==
    IF entries = <<>> THEN <<>>
    ELSE TvProgramme(Head(entries)) \o TvProgrammes(Tail(entries))

\* a converter that adds the programmes before the channels
convert_tvmaze_ProgrammesFirst(data) ==
    IF ~data.some \/ data.entries = <<>> THEN Tree("TVMaze API", <<>>)
    ELSE Tree("TVMaze API",
              TvProgrammes(data.entries) \o TvChannels(data.entries, <<>>))

\* convert_tvmaze_to_xmltv(tvmaze_data), lines 115-197
convert_tvmaze_to_xmltv(data) ==
    IF ~data.some \/ data.entries = <<>> THEN Tree("TVMaze API", <<>>)
    ELSE Tree("TVMaze API",
              TvChannels(data.entries, <<>>) \o TvProgrammes(data.entries))

\* the inputs: schedule entries

TvNetworks ==
    { [some |-> TRUE, id |-> <<"1">>, name |-> lit.ABC],
      [some |-> FALSE, id |-> <<>>, name |-> <<>>] }

TvRuntimes ==
    { Runtime("absent", 0), Runtime("null", 0), Runtime("int", 60),
      Runtime("int", 0) }

TvEntries ==
    { [show_name |-> <<"S","h","o","w">>, name |-> n, network |-> nw, airstamp |-> a,
       runtime |-> r] :
        n \in {<<"P","i","l","o","t">>}, nw \in TvNetworks, r \in TvRuntimes,
        a \in {sample.iso_0600_pst, sample.iso_1400_z, sample.iso_0600, sample.iso_bad, <<>>} }

\* what get_schedule returns: None, or the list the API sent
TvNone == [some |-> FALSE, entries |-> <<>>]
TvSchedules ==
    { TvNone }
    \cup { [some |-> TRUE, entries |-> es] : es \in SeqsUpTo(TvEntries, MaxTvEntries) }

TvInit ==
    /\ script = "tvmaze"
    /\ pc = "today"
    /\ loc = [data |-> TvNone]
    /\ root = EmptyTree
    /\ output = NoOutput
    /\ exit_code = Running
    /\ error = "none"
    /\ calls = <<>>

\* main, lines 215-218: get_schedule for today
TvToday ==
    /\ script = "tvmaze" /\ pc = "today"
    /\ \E now \in Clock, data \in TvSchedules :
          /\ calls' = Append(calls,
                             GetWith(schedule_url,
                                     [country |-> "US",
                                      date |-> Strftime_date(now)]))
          /\ loc' = [loc EXCEPT !.data = data]
          /\ pc' = IF ~data.some \/ data.entries = <<>>
                   THEN "tomorrow" ELSE "write"
    /\ UNCHANGED <<script, root, output, exit_code, error>>

\* main, lines 218-222: get_schedule for tomorrow
TvTomorrow ==
    /\ script = "tvmaze" /\ pc = "tomorrow"
    /\ \E now \in Clock, data \in TvSchedules :
          /\ calls' = Append(calls,
                             GetWith(schedule_url,
                                     [country |-> "US",
                                      date |-> Strftime_date(AddHours(now, 24))]))
          /\ loc' = [loc EXCEPT !.data = data]
    /\ pc' = "write"
    /\ UNCHANGED <<script, root, output, exit_code, error>>

\* main, lines 224-251
TvWrite ==
    /\ script = "tvmaze" /\ pc = "write"
    /\ root' = convert_tvmaze_to_xmltv(loc.data)
    /\ output' = WriteFile("xmltv", root')
    /\ pc' = "done"
    /\ exit_code' = "0"
    /\ UNCHANGED <<script, loc, error, calls>>

NextTv == TvToday \/ TvTomorrow \/ TvWrite

----------------------------------------------------------------------------
(* zap2it_selenium_scraper.py                                              *)

zap_grid_url == "https://tvlistings.gracenote.com/grid-affiliates.html?aid=orbebb"

\* channel_configs, lines 209-216
channel_configs ==
    << [id |-> <<"1","0",".","1">>, name |-> <<"K","G","T","V","-","H","D">>, callsign |-> <<"A","B","C">>],
       [id |-> <<"1","5",".","1">>, name |-> <<"K","P","B","S","H","D">>, callsign |-> <<"P","B","S">>],
       [id |-> <<"1","0",".","7">>, name |-> <<"H","S","N">>, callsign |-> <<"H","S","N">>],
       [id |-> <<"1","0",".","8">>, name |-> <<"Q","V","C">>, callsign |-> <<"Q","V","C">>],
       [id |-> <<"3","9",".","1">>, name |-> <<"K","N","S","D","-","D","T">>, callsign |-> <<"N","B","C">>],
       [id |-> <<"6","9",".","1">>, name |-> <<"K","S","W","B","-","H","D">>, callsign |-> <<"F","O","X">>] >>

\* realistic_programs, lines 219-250, in the order of channel_configs
realistic_programs ==
    <<
      << <<"G","o","o","d"," ","M","o","r","n","i","n","g"," ","A","m","e","r","i","c","a">>,
         <<"T","h","e"," ","V","i","e","w">>,
         <<"G","e","n","e","r","a","l"," ","H","o","s","p","i","t","a","l">>,
         <<"L","o","c","a","l"," ","N","e","w","s">>,
         <<"W","h","e","e","l"," ","o","f"," ","F","o","r","t","u","n","e">>,
         <<"J","e","o","p","a","r","d","y","!">>,
         <<"W","o","r","l","d"," ","N","e","w","s"," ","T","o","n","i","g","h","t">>,
         <<"T","h","e"," ","B","a","c","h","e","l","o","r">>,
         <<"A","b","b","o","t","t"," ","E","l","e","m","e","n","t","a","r","y">>,
         <<"T","h","e"," ","R","o","o","k","i","e">>,
         <<"L","o","c","a","l"," ","N","e","w","s">>,
         <<"J","i","m","m","y"," ","K","i","m","m","e","l"," ","L","i","v","e","!">> >>,
      << <<"P","B","S"," ","N","e","w","s","H","o","u","r">>,
         <<"N","a","t","u","r","e">>,
         <<"N","O","V","A">>,
         <<"F","r","o","n","t","l","i","n","e">>,
         <<"M","a","s","t","e","r","p","i","e","c","e">>,
         <<"I","n","d","e","p","e","n","d","e","n","t"," ","L","e","n","s">>,
         <<"A","m","e","r","i","c","a","n"," ","E","x","p","e","r","i","e","n","c","e">>,
         <<"A","n","t","i","q","u","e","s"," ","R","o","a","d","s","h","o","w">>,
         <<"C","a","l","l"," ","t","h","e"," ","M","i","d","w","i","f","e">>,
         <<"A","l","l"," ","C","r","e","a","t","u","r","e","s"," ","G","r","e","a","t"," ","&"," ","S","m","a","l","l">>,
         <<"A","u","s","t","i","n"," ","C","i","t","y"," ","L","i","m","i","t","s">>,
         <<"A","m","a","n","p","o","u","r"," ","a","n","d"," ","C","o","m","p","a","n","y">> >>,
      << <<"T","o","d","a","y","'","s"," ","S","p","e","c","i","a","l"," ","V","a","l","u","e">>,
         <<"F","a","s","h","i","o","n"," ","F","r","i","d","a","y">>,
         <<"H","o","m","e"," ","S","o","l","u","t","i","o","n","s">>,
         <<"B","e","a","u","t","y"," ","H","o","u","r">>,
         <<"K","i","t","c","h","e","n"," ","&"," ","F","o","o","d">>,
         <<"J","e","w","e","l","r","y"," ","S","h","o","w","c","a","s","e">>,
         <<"E","l","e","c","t","r","o","n","i","c","s"," ","S","h","o","w">>,
         <<"H","o","l","i","d","a","y"," ","G","i","f","t","s">>,
         <<"W","e","l","l","n","e","s","s"," ","W","e","d","n","e","s","d","a","y">>,
         <<"C","l","e","a","r","a","n","c","e"," ","E","v","e","n","t">>,
         <<"N","e","w"," ","P","r","o","d","u","c","t"," ","L","a","u","n","c","h">>,
         <<"C","u","s","t","o","m","e","r"," ","C","h","o","i","c","e">> >>,
      << <<"A","M"," ","S","t","y","l","e">>,
         <<"T","o","d","a","y","'","s"," ","S","p","e","c","i","a","l"," ","V","a","l","u","e">>,
         <<"F","a","s","h","i","o","n"," ","F","o","c","u","s">>,
         <<"B","e","a","u","t","y"," ","I","Q">>,
         <<"K","i","t","c","h","e","n"," ","&"," ","F","o","o","d">>,
         <<"I","n"," ","t","h","e"," ","H","o","u","s","e">>,
         <<"P","M"," ","S","t","y","l","e">>,
         <<"S","a","t","u","r","d","a","y"," ","N","i","g","h","t"," ","B","e","a","u","t","y">>,
         <<"S","u","n","d","a","y"," ","N","i","g","h","t"," ","F","o","o","t","b","a","l","l">>,
         <<"F","o","r"," ","t","h","e"," ","H","o","m","e">>,
         <<"J","e","w","e","l","r","y"," ","C","o","l","l","e","c","t","i","o","n">>,
         <<"T","e","c","h"," ","T","u","e","s","d","a","y">> >>,
      << <<"T","o","d","a","y"," ","S","h","o","w">>,
         <<"D","a","y","s"," ","o","f"," ","O","u","r"," ","L","i","v","e","s">>,
         <<"N","B","C"," ","N","i","g","h","t","l","y"," ","N","e","w","s">>,
         <<"A","c","c","e","s","s"," ","H","o","l","l","y","w","o","o","d">>,
         <<"W","h","e","e","l"," ","o","f"," ","F","o","r","t","u","n","e">>,
         <<"J","e","o","p","a","r","d","y","!">>,
         <<"N","B","C"," ","N","i","g","h","t","l","y"," ","N","e","w","s">>,
         <<"T","h","e"," ","V","o","i","c","e">>,
         <<"L","a","w"," ","&"," ","O","r","d","e","r">>,
         <<"C","h","i","c","a","g","o"," ","F","i","r","e">>,
         <<"L","o","c","a","l"," ","N","e","w","s">>,
         <<"T","h","e"," ","T","o","n","i","g","h","t"," ","S","h","o","w">> >>,
      << <<"G","o","o","d"," ","D","a","y">>,
         <<"T","h","e"," ","P","e","o","p","l","e","'","s"," ","C","o","u","r","t">>,
         <<"J","u","d","g","e"," ","J","u","d","y">>,
         <<"L","o","c","a","l"," ","N","e","w","s">>,
         <<"T","h","e"," ","S","i","m","p","s","o","n","s">>,
         <<"F","a","m","i","l","y"," ","G","u","y">>,
         <<"F","O","X"," ","N","e","w","s">>,
         <<"T","h","e"," ","M","a","s","k","e","d"," ","S","i","n","g","e","r">>,
         <<"9","-","1","-","1">>,
         <<"T","h","e"," ","R","e","s","i","d","e","n","t">>,
         <<"L","o","c","a","l"," ","N","e","w","s">>,
         <<"T","M","Z">> >>
    >>


\* lines 260-272: the title of the event of an hour on channel c
SampleTitle(c, hour) ==
    LET callsign == channel_configs[c].callsign
        title    == realistic_programs[c][(hour % 12) + 1]
    IN  IF 6 <= hour /\ hour < 10
        THEN (IF ~Contains(title, lit.Morning)
              THEN lit.Morning \o <<" ">> \o title ELSE title)
        ELSE IF 17 <= hour /\ hour < 19
        THEN (IF ~Contains(title, lit.News) /\ callsign \in {lit.ABC, lit.NBC, lit.FOX}
              THEN <<"E","v","e","n","i","n","g"," ","N","e","w","s">> ELSE title)
        ELSE IF hour >= 23 \/ hour < 6
        THEN (IF ~Contains(title, <<"L","a","t","e">>) /\ callsign \in {lit.ABC, lit.NBC}
              THEN <<"L","a","t","e"," ","N","i","g","h","t">> \o <<" ">> \o title ELSE title)
        ELSE title

\* line 260
SampleDuration(hour) == IF hour % 2 = 0 THEN 60 ELSE 30

\* event_time at the start of the iteration for an hour (lines 254, 286)
RECURSIVE SampleEventTime(_, _)
SampleEventTime(current_time, hour) ==
    IF hour = 0 THEN ReplaceToHour(current_time)
    ELSE AddMinutes(SampleEventTime(current_time, hour - 1),
                    SampleDuration(hour - 1))

\* lines 274-283
SampleEvent(c, current_time, hour) ==
    [startTime |-> Strftime_iso_z(SampleEventTime(current_time, hour)),
     endTime   |-> Strftime_iso_z(AddMinutes(SampleEventTime(current_time, hour),
                                             SampleDuration(hour))),
     title     |-> SampleTitle(c, hour),
     duration  |-> SampleDuration(hour)]

\* generate_sample_data(), lines 201-295
generate_sample_data(current_time) ==
    [c \in DOMAIN channel_configs |->
        [channelId |-> channel_configs[c].id,
         channelNo |-> channel_configs[c].id,
         callSign  |-> channel_configs[c].callsign,
         events    |-> [h \in 1..24 |-> SampleEvent(c, current_time, h - 1)]]]

\* format_xmltv_time(time_str), lines 378-391; now is datetime.now()
zap_format_xmltv_time(time_str, now) ==
    IF time_str = <<>> THEN Strftime_utc_label(now)
    ELSE IF Contains(time_str, <<"T">>)
    THEN (IF FromIsoFormat(ReplaceZ(time_str)).ok
          THEN Strftime_utc_label(FromIsoFormat(ReplaceZ(time_str)).val)
          ELSE Strftime_utc_label(now))
    ELSE time_str

\* lines 325-334: the display names of a channel
ZapDisplayNames(channel) ==
    SelectSeq(<< Strip(channel.channelNo \o <<" ">> \o channel.callSign),
                 Strip(channel.channelNo), Strip(channel.callSign) >>,
              LAMBDA name : name # <<>>)

\* lines 339-374: the programmes of one channel
ZapProgrammes(channel, now) ==
    [k \in DOMAIN channel.events |->
        ProgrammeElem(channel.channelId,
                      zap_format_xmltv_time(channel.events[k].startTime, now),
                      zap_format_xmltv_time(channel.events[k].endTime, now),
                      channel.events[k].title)]

RECURSIVE ZapAllProgrammes(_, _)
ZapAllProgrammes(channels, now) ==
    IF channels = <<>> THEN <<>>
    ELSE ZapProgrammes(Head(channels), now)
         \o ZapAllProgrammes(Tail(channels), now)

\* build_xmltv(guide_data), lines 297-376
build_xmltv(channels, now) ==
    Tree("Gracenote",
         [k \in DOMAIN channels |->
             ChannelElem(channels[k].channelId, ZapDisplayNames(channels[k]))]
         \o ZapAllProgrammes(channels, now))

\* the inputs: what the script run in the page returns (lines 149-188)
ZapEvents ==
    { [startTime |-> st, endTime |-> en, title |-> lit.News, duration |-> 60] :
        st \in {sample.iso_0600_pst, sample.iso_1400_z, sample.iso_0600, sample.iso_bad, <<>>},
        en \in {sample.iso_0700_pst, <<>>} }

ZapGridChannels ==
    { [channelId |-> lit.id_10_1, channelNo |-> no, callSign |-> cs,
       events |-> <<ev>>] :
        no \in {lit.id_10_1, <<>>}, cs \in {lit.KGTV, <<" ">>, <<>>},
        ev \in ZapEvents }

\* grid_data.get('channels'): an empty list is "no grid data"
ZapGrids == { <<>> } \cup { <<ch>> : ch \in ZapGridChannels }

\* what the scrape of lines 136-188 comes to: it raises, or execute_script
\* returns nothing, an object without channels, or an object with a channel
\* list
ZapScrapes ==
    { [kind |-> kind, channels |-> <<>>] :
        kind \in {"raises", "None", "no channels"} }
    \cup { [kind |-> "grid", channels |-> grid] : grid \in ZapGrids }

\* extract_grid_data, lines 190-199: what is returned for a scrape
extract_grid_data_NoFallback(scrape, now) ==
    IF scrape.kind = "grid"
    THEN [live |-> TRUE, channels |-> scrape.channels]
    ELSE [live |-> FALSE, channels |-> generate_sample_data(now)]

extract_grid_data(scrape, now) ==
    IF scrape.kind = "grid" /\ scrape.channels # <<>>
    THEN [live |-> TRUE, channels |-> scrape.channels]
    ELSE [live |-> FALSE, channels |-> generate_sample_data(now)]

ZapInit ==
    /\ script = "zap2it"
    /\ pc = "main"
    /\ loc = [driver |-> "none", on_grid |-> FALSE, live |-> FALSE,
              guide_data |-> <<>>]
    /\ root = EmptyTree
    /\ output = NoOutput
    /\ exit_code = Running
    /\ error = "none"
    /\ calls = <<>>

\* main, lines 449-454: --test builds and saves the sample data
ZapTest ==
    /\ script = "zap2it" /\ pc = "main"
    /\ \E now \in Clock :
          /\ loc' = [loc EXCEPT !.guide_data = generate_sample_data(now)]
          /\ root' = build_xmltv(loc'.guide_data, now)
    /\ output' = WriteFile("xmltv", root')
    /\ pc' = "done"
    /\ exit_code' = "0"
    /\ UNCHANGED <<script, error, calls>>

\* run, line 411: setup_driver, which may raise (no browser, no driver)
ZapSetup ==
    /\ script = "zap2it" /\ pc = "main"
    /\ \/ /\ loc' = [loc EXCEPT !.driver = "open"]
          /\ pc' = "authenticate"
          /\ UNCHANGED <<exit_code, error>>
       \/ /\ pc' = "done"
          /\ exit_code' = "1"
          /\ error' = "exception"
          /\ UNCHANGED loc
    /\ UNCHANGED <<script, root, output, calls>>

\* authenticate, lines 87-132, and run lines 414-416 and 434-437
ZapAuthenticate ==
    /\ script = "zap2it" /\ pc = "authenticate"
    /\ \/ /\ calls' = calls \o <<Get(zap_grid_url), Sleep("5")>>
          /\ \E on_grid \in BOOLEAN :
                loc' = [loc EXCEPT !.on_grid = on_grid]
          /\ pc' = "extract"
          /\ UNCHANGED <<exit_code, error>>
       \/ /\ calls' = calls \o <<Get(zap_grid_url), Sleep("5"), Sleep("5")>>
          /\ \E on_grid \in BOOLEAN :
                loc' = [loc EXCEPT !.on_grid = on_grid]
          /\ pc' = "extract"
          /\ UNCHANGED <<exit_code, error>>
       \/ /\ calls' = calls \o <<Get(zap_grid_url), Quit>>
          /\ loc' = [loc EXCEPT !.driver = "quit"]
          /\ pc' = "done"
          /\ exit_code' = "1"
          /\ error' = "login"
    /\ UNCHANGED <<script, root, output>>

\* extract_grid_data, lines 134-199
ZapExtract ==
    /\ script = "zap2it" /\ pc = "extract"
    /\ calls' = IF loc.on_grid THEN calls
                ELSE calls \o <<Get(zap_grid_url), Sleep("5")>>
    /\ \E scrape \in ZapScrapes, now \in Clock :
          LET guide_data == extract_grid_data(scrape, now)
          IN  loc' = [loc EXCEPT !.guide_data = guide_data.channels,
                                 !.live = guide_data.live]
    /\ pc' = "build"
    /\ UNCHANGED <<script, root, output, exit_code, error>>

\* run, lines 421-437, and main line 457
ZapSaveNoQuit ==
    /\ script = "zap2it" /\ pc = "build"
    /\ \/ /\ \E now \in Clock : root' = build_xmltv(loc.guide_data, now)
          /\ output' = WriteFile("xmltv", root')
          /\ exit_code' = "0"
          /\ UNCHANGED error
       \/ /\ exit_code' = "1"
          /\ error' = "exception"
          /\ UNCHANGED <<root, output>>
    /\ pc' = "done"
    /\ UNCHANGED <<script, loc, calls>>

ZapSave ==
    /\ script = "zap2it" /\ pc = "build"
    /\ \/ /\ \E now \in Clock : root' = build_xmltv(loc.guide_data, now)
          /\ output' = WriteFile("xmltv", root')
          /\ exit_code' = "0"
          /\ UNCHANGED error
       \/ \* build_xmltv or save_xmltv raises: the handler of line 430
          /\ exit_code' = "1"
          /\ error' = "exception"
          /\ UNCHANGED <<root, output>>
    /\ loc' = [loc EXCEPT !.driver = "quit"]
    /\ calls' = Append(calls, Quit)
    /\ pc' = "done"
    /\ UNCHANGED script

NextZap == ZapTest \/ ZapSetup \/ ZapAuthenticate \/ ZapExtract \/ ZapSave

----------------------------------------------------------------------------
(* ota_scraper.py                                                          *)

\* get_san_diego_ota_channels(), lines 53-74, in dict order
ota_channels ==
    << [call_sign |-> <<"K","G","T","V","-","H","D">>,
        id |-> <<"1","0",".","1">>, name |-> <<"A","B","C"," ","S","a","n"," ","D","i","e","g","o">>,
        network |-> "ABC"],
       [call_sign |-> <<"K","F","M","B","-","H","D">>,
        id |-> <<"8",".","1">>, name |-> <<"C","B","S"," ","S","a","n"," ","D","i","e","g","o">>,
        network |-> "CBS"],
       [call_sign |-> <<"K","N","S","D","-","D","T">>,
        id |-> <<"3","9",".","1">>, name |-> <<"N","B","C"," ","S","a","n"," ","D","i","e","g","o">>,
        network |-> "NBC"],
       [call_sign |-> <<"K","S","W","B","-","H","D">>,
        id |-> <<"6","9",".","1">>, name |-> <<"F","O","X"," ","S","a","n"," ","D","i","e","g","o">>,
        network |-> "FOX"],
       [call_sign |-> <<"K","U","S","I","-","H","D">>,
        id |-> <<"5","1",".","1">>, name |-> <<"K","U","S","I"," ","I","n","d","e","p","e","n","d","e","n","t">>,
        network |-> "IND"],
       [call_sign |-> <<"K","P","B","S","-","H","D">>,
        id |-> <<"1","5",".","1">>, name |-> <<"P","B","S"," ","S","a","n"," ","D","i","e","g","o">>,
        network |-> "PBS"],
       [call_sign |-> <<"K","P","B","S","2">>,
        id |-> <<"1","5",".","2">>, name |-> <<"P","B","S"," ","K","i","d","s">>,
        network |-> "PBS"],
       [call_sign |-> <<"C","R","E","A","T","E">>,
        id |-> <<"1","5",".","3">>, name |-> <<"C","r","e","a","t","e"," ","T","V">>,
        network |-> "PBS"],
       [call_sign |-> <<"I","O","N">>,
        id |-> <<"7",".","1">>, name |-> <<"I","O","N"," ","T","e","l","e","v","i","s","i","o","n">>,
        network |-> "ION"],
       [call_sign |-> <<"Q","V","C">>,
        id |-> <<"7",".","2">>, name |-> <<"Q","V","C">>,
        network |-> "QVC"],
       [call_sign |-> <<"H","S","N">>,
        id |-> <<"7",".","3">>, name |-> <<"H","S","N">>,
        network |-> "HSN"],
       [call_sign |-> <<"G","r","i","t">>,
        id |-> <<"6","9",".","2">>, name |-> <<"G","r","i","t">>,
        network |-> "Grit"],
       [call_sign |-> <<"L","a","f","f">>,
        id |-> <<"6","9",".","3">>, name |-> <<"L","a","f","f">>,
        network |-> "Laff"],
       [call_sign |-> <<"B","o","u","n","c","e">>,
        id |-> <<"3","9",".","2">>, name |-> <<"B","o","u","n","c","e"," ","T","V">>,
        network |-> "Bounce"],
       [call_sign |-> <<"C","o","u","r","t"," ","T","V">>,
        id |-> <<"3","9",".","3">>, name |-> <<"C","o","u","r","t"," ","T","V">>,
        network |-> "CourtTV"],
       [call_sign |-> <<"T","r","u","e","R","e","a","l">>,
        id |-> <<"3","9",".","4">>, name |-> <<"T","r","u","e","R","e","a","l">>,
        network |-> "TrueReal"],
       [call_sign |-> <<"A","n","t","e","n","n","a","T","V">>,
        id |-> <<"8",".","2">>, name |-> <<"A","n","t","e","n","n","a"," ","T","V">>,
        network |-> "AntennaTV"],
       [call_sign |-> <<"D","e","c","a","d","e","s">>,
        id |-> <<"8",".","3">>, name |-> <<"D","e","c","a","d","e","s">>,
        network |-> "Decades"] >>

\* programming, lines 90-143: title and duration in minutes
programming ==
    [ ABC |->
        << [title |-> <<"G","o","o","d"," ","M","o","r","n","i","n","g"," ","A","m","e","r","i","c","a">>,
            duration |-> 180],
           [title |-> <<"T","h","e"," ","V","i","e","w">>,
            duration |-> 60],
           [title |-> <<"G","e","n","e","r","a","l"," ","H","o","s","p","i","t","a","l">>,
            duration |-> 60],
           [title |-> <<"A","B","C"," ","W","o","r","l","d"," ","N","e","w","s"," ","T","o","n","i","g","h","t">>,
            duration |-> 30],
           [title |-> <<"J","e","o","p","a","r","d","y","!">>,
            duration |-> 30],
           [title |-> <<"W","h","e","e","l"," ","o","f"," ","F","o","r","t","u","n","e">>,
            duration |-> 30],
           [title |-> <<"A","b","b","o","t","t"," ","E","l","e","m","e","n","t","a","r","y">>,
            duration |-> 30],
           [title |-> <<"T","h","e"," ","B","a","c","h","e","l","o","r">>,
            duration |-> 120],
           [title |-> <<"L","o","c","a","l"," ","N","e","w","s">>,
            duration |-> 60] >>,
      NBC |->
        << [title |-> <<"T","o","d","a","y"," ","S","h","o","w">>,
            duration |-> 240],
           [title |-> <<"D","a","y","s"," ","o","f"," ","O","u","r"," ","L","i","v","e","s">>,
            duration |-> 60],
           [title |-> <<"N","B","C"," ","N","i","g","h","t","l","y"," ","N","e","w","s">>,
            duration |-> 30],
           [title |-> <<"T","h","e"," ","V","o","i","c","e">>,
            duration |-> 120],
           [title |-> <<"T","h","i","s"," ","I","s"," ","U","s"," ","(","R","e","r","u","n",")">>,
            duration |-> 60],
           [title |-> <<"L","o","c","a","l"," ","N","e","w","s">>,
            duration |-> 60] >>,
      CBS |->
        << [title |-> <<"C","B","S"," ","M","o","r","n","i","n","g","s">>,
            duration |-> 180],
           [title |-> <<"T","h","e"," ","P","r","i","c","e"," ","i","s"," ","R","i","g","h","t">>,
            duration |-> 60],
           [title |-> <<"T","h","e"," ","Y","o","u","n","g"," ","a","n","d"," ","t","h","e"," ","R","e","s","t","l","e","s","s">>,
            duration |-> 60],
           [title |-> <<"T","h","e"," ","B","o","l","d"," ","a","n","d"," ","t","h","e"," ","B","e","a","u","t","i","f","u","l">>,
            duration |-> 30],
           [title |-> <<"C","B","S"," ","E","v","e","n","i","n","g"," ","N","e","w","s">>,
            duration |-> 30],
           [title |-> <<"S","u","r","v","i","v","o","r">>,
            duration |-> 90],
           [title |-> <<"L","o","c","a","l"," ","N","e","w","s">>,
            duration |-> 60] >>,
      FOX |->
        << [title |-> <<"F","O","X"," ","&"," ","F","r","i","e","n","d","s"," ","(","L","o","c","a","l",")">>,
            duration |-> 180],
           [title |-> <<"J","u","d","g","e"," ","J","u","d","y">>,
            duration |-> 30],
           [title |-> <<"T","h","e"," ","P","e","o","p","l","e","'","s"," ","C","o","u","r","t">>,
            duration |-> 30],
           [title |-> <<"F","O","X"," ","5"," ","N","e","w","s">>,
            duration |-> 60],
           [title |-> <<"T","h","e"," ","S","i","m","p","s","o","n","s">>,
            duration |-> 30],
           [title |-> <<"F","a","m","i","l","y"," ","G","u","y">>,
            duration |-> 30],
           [title |-> <<"9","-","1","-","1">>,
            duration |-> 60] >>,
      PBS |->
        << [title |-> <<"P","B","S"," ","N","e","w","s","H","o","u","r">>,
            duration |-> 60],
           [title |-> <<"S","e","s","a","m","e"," ","S","t","r","e","e","t">>,
            duration |-> 30],
           [title |-> <<"D","a","n","i","e","l"," ","T","i","g","e","r">>,
            duration |-> 30],
           [title |-> <<"N","a","t","u","r","e">>,
            duration |-> 60],
           [title |-> <<"N","O","V","A">>,
            duration |-> 60],
           [title |-> <<"M","a","s","t","e","r","p","i","e","c","e">>,
            duration |-> 120] >>,
      IND |->
        << [title |-> <<"K","U","S","I"," ","M","o","r","n","i","n","g"," ","N","e","w","s">>,
            duration |-> 240],
           [title |-> <<"K","U","S","I"," ","M","i","d","d","a","y">>,
            duration |-> 60],
           [title |-> <<"K","U","S","I"," ","E","v","e","n","i","n","g"," ","N","e","w","s">>,
            duration |-> 60],
           [title |-> <<"S","a","n"," ","D","i","e","g","o"," ","S","p","o","r","t","s">>,
            duration |-> 30],
           [title |-> <<"G","o","o","d"," ","D","a","y"," ","S","a","n"," ","D","i","e","g","o">>,
            duration |-> 180] >> ]


\* lines 82-83: one channel element per entry of the lineup
OtaChannelElems ==
    [k \in DOMAIN ota_channels |->
        ChannelElem(ota_channels[k].id,
                    <<ota_channels[k].name, ota_channels[k].call_sign>>)]

OtaInit ==
    /\ script = "ota"
    /\ pc = "channels"
    /\ loc = [c |-> 1, program_index |-> 0,
              start_time |-> Naive(0, 0), current_time |-> Naive(0, 0)]
    /\ root = EmptyTree
    /\ output = NoOutput
    /\ exit_code = Running
    /\ error = "none"
    /\ calls = <<>>

\* generate_ota_programming, lines 78-87
OtaChannels ==
    /\ script = "ota" /\ pc = "channels"
    /\ root' = Tree("OTA TV Listings", OtaChannelElems)
    /\ \E now \in Clock :
          loc' = [loc EXCEPT !.start_time = ReplaceHM(now, 6, 0).val,
                             !.current_time = ReplaceHM(now, 6, 0).val]
    /\ pc' = "programs"
    /\ UNCHANGED <<script, output, exit_code, error, calls>>

\* lines 157-158 and 172-173: title and end_time of the next programme
OtaIsNetwork(c) == ota_channels[c].network \in DOMAIN programming
OtaProgramOf(c, program_index) ==
    LET programs == programming[ota_channels[c].network]
    IN  programs[(program_index % Len(programs)) + 1]
OtaTitle(c, program_index) ==
    IF OtaIsNetwork(c) THEN OtaProgramOf(c, program_index).title
    ELSE <<"P","r","o","g","r","a","m","m","i","n","g"," ","o","n"," ">> \o ota_channels[c].name
OtaEndTimeNoAdvance(c, program_index, current_time) == current_time

OtaEndTime(c, program_index, current_time) ==
    IF OtaIsNetwork(c)
    THEN AddMinutes(current_time, OtaProgramOf(c, program_index).duration)
    ELSE AddHours(current_time, 2)

\* one iteration of the while loop of lines 156-167 or 171-181
OtaProgramWithGap ==
    /\ script = "ota" /\ pc = "programs"
    /\ SameDate(loc.current_time, loc.start_time)
    /\ LET end_time == OtaEndTime(loc.c, loc.program_index, loc.current_time)
       IN  /\ root' = [root EXCEPT !.children =
                          Append(@, ProgrammeElem(ota_channels[loc.c].id,
                                        Strftime_z(loc.current_time),
                                        Strftime_z(end_time),
                                        OtaTitle(loc.c, loc.program_index)))]
           /\ loc' = [loc EXCEPT !.current_time = AddMinutes(end_time, 1),
                                 !.program_index = loc.program_index + 1]
    /\ UNCHANGED <<script, pc, output, exit_code, error, calls>>

OtaProgram ==
    /\ script = "ota" /\ pc = "programs"
    /\ SameDate(loc.current_time, loc.start_time)
    /\ LET end_time == OtaEndTime(loc.c, loc.program_index, loc.current_time)
       IN  /\ root' = [root EXCEPT !.children =
                          Append(@, ProgrammeElem(ota_channels[loc.c].id,
                                        Strftime_z(loc.current_time),
                                        Strftime_z(end_time),
                                        OtaTitle(loc.c, loc.program_index)))]
           /\ loc' = [loc EXCEPT !.current_time = end_time,
                                 !.program_index = loc.program_index + 1]
    /\ UNCHANGED <<script, pc, output, exit_code, error, calls>>

\* the while loop ends; the for loop of line 146 takes the next channel
OtaNextChannel ==
    /\ script = "ota" /\ pc = "programs"
    /\ ~SameDate(loc.current_time, loc.start_time)
    /\ IF loc.c < Len(ota_channels)
       THEN /\ loc' = [loc EXCEPT !.c = loc.c + 1,
                                  !.program_index = 0,
                                  !.current_time = loc.start_time]
            /\ pc' = "programs"
       ELSE /\ pc' = "write"
            /\ UNCHANGED loc
    /\ UNCHANGED <<script, root, output, exit_code, error, calls>>

\* main, lines 197-209
OtaWrite ==
    /\ script = "ota" /\ pc = "write"
    /\ output' = WriteFile("xmltv", root)
    /\ pc' = "done"
    /\ exit_code' = "0"
    /\ UNCHANGED <<script, loc, root, error, calls>>

NextOta == OtaChannels \/ OtaProgram \/ OtaNextChannel \/ OtaWrite

----------------------------------------------------------------------------
(* simple_epg_scraper.py                                                   *)

airings_url == "https://tvlistings.gracenote.com/gapzap_webapi/api/airings"

\* channels, lines 89-96, in insertion order
simple_channels ==
    << [id |-> <<"1","0",".","1">>,
        name |-> <<"K","G","T","V"," ","(","A","B","C",")">>],
       [id |-> <<"3","9",".","1">>,
        name |-> <<"K","N","S","D"," ","(","N","B","C",")">>],
       [id |-> <<"8",".","1">>,
        name |-> <<"K","F","M","B"," ","(","C","B","S",")">>],
       [id |-> <<"6","9",".","1">>,
        name |-> <<"K","S","W","B"," ","(","F","O","X",")">>],
       [id |-> <<"1","5",".","1">>,
        name |-> <<"K","P","B","S"," ","(","P","B","S",")">>],
       [id |-> <<"1","0",".","7">>,
        name |-> <<"H","S","N">>] >>

\* programs, lines 99-168: (title, start_hour, end_hour) per channel id
simple_programs ==
    << [id |-> <<"1","0",".","1">>, listed |-> <<
           [title |-> <<"G","o","o","d"," ","M","o","r","n","i","n","g"," ","A","m","e","r","i","c","a">>,
            start_hour |-> <<"6",":","0","0">>, end_hour |-> <<"9",":","0","0">>],
           [title |-> <<"T","h","e"," ","V","i","e","w">>,
            start_hour |-> <<"9",":","0","0">>, end_hour |-> <<"1","0",":","0","0">>],
           [title |-> <<"G","e","n","e","r","a","l"," ","H","o","s","p","i","t","a","l">>,
            start_hour |-> <<"1","0",":","0","0">>, end_hour |-> <<"1","1",":","0","0">>],
           [title |-> <<"A","B","C"," ","N","e","w","s">>,
            start_hour |-> <<"1","1",":","0","0">>, end_hour |-> <<"1","1",":","3","0">>],
           [title |-> <<"L","o","c","a","l"," ","N","e","w","s">>,
            start_hour |-> <<"1","1",":","3","0">>, end_hour |-> <<"1","2",":","0","0">>],
           [title |-> <<"J","u","d","g","e"," ","J","u","d","y">>,
            start_hour |-> <<"1","2",":","0","0">>, end_hour |-> <<"1","3",":","0","0">>],
           [title |-> <<"S","t","e","v","e"," ","H","a","r","v","e","y">>,
            start_hour |-> <<"1","3",":","0","0">>, end_hour |-> <<"1","4",":","0","0">>],
           [title |-> <<"A","B","C"," ","W","o","r","l","d"," ","N","e","w","s">>,
            start_hour |-> <<"1","4",":","0","0">>, end_hour |-> <<"1","4",":","3","0">>],
           [title |-> <<"J","e","o","p","a","r","d","y","!">>,
            start_hour |-> <<"1","4",":","3","0">>, end_hour |-> <<"1","5",":","0","0">>],
           [title |-> <<"W","h","e","e","l"," ","o","f"," ","F","o","r","t","u","n","e">>,
            start_hour |-> <<"1","5",":","0","0">>, end_hour |-> <<"1","5",":","3","0">>],
           [title |-> <<"A","B","C"," ","E","v","e","n","i","n","g"," ","N","e","w","s">>,
            start_hour |-> <<"1","5",":","3","0">>, end_hour |-> <<"1","6",":","0","0">>],
           [title |-> <<"P","r","i","m","e","t","i","m","e"," ","S","p","e","c","i","a","l">>,
            start_hour |-> <<"1","6",":","0","0">>, end_hour |-> <<"1","8",":","0","0">>],
           [title |-> <<"T","h","e"," ","B","a","c","h","e","l","o","r">>,
            start_hour |-> <<"1","8",":","0","0">>, end_hour |-> <<"2","0",":","0","0">>],
           [title |-> <<"D","a","n","c","i","n","g"," ","w","i","t","h"," ","t","h","e"," ","S","t","a","r","s">>,
            start_hour |-> <<"2","0",":","0","0">>, end_hour |-> <<"2","2",":","0","0">>],
           [title |-> <<"J","i","m","m","y"," ","K","i","m","m","e","l"," ","L","i","v","e","!">>,
            start_hour |-> <<"2","2",":","0","0">>, end_hour |-> <<"2","3",":","0","0">>],
           [title |-> <<"N","i","g","h","t","l","i","n","e">>,
            start_hour |-> <<"2","3",":","0","0">>, end_hour |-> <<"2","3",":","3","0">>] >>],
       [id |-> <<"3","9",".","1">>, listed |-> <<
           [title |-> <<"T","o","d","a","y"," ","S","h","o","w">>,
            start_hour |-> <<"6",":","0","0">>, end_hour |-> <<"1","0",":","0","0">>],
           [title |-> <<"D","a","y","s"," ","o","f"," ","O","u","r"," ","L","i","v","e","s">>,
            start_hour |-> <<"1","0",":","0","0">>, end_hour |-> <<"1","1",":","0","0">>],
           [title |-> <<"N","B","C"," ","N","e","w","s"," ","D","a","i","l","y">>,
            start_hour |-> <<"1","1",":","0","0">>, end_hour |-> <<"1","2",":","0","0">>],
           [title |-> <<"A","c","c","e","s","s"," ","H","o","l","l","y","w","o","o","d">>,
            start_hour |-> <<"1","2",":","0","0">>, end_hour |-> <<"1","2",":","3","0">>],
           [title |-> <<"E","x","t","r","a">>,
            start_hour |-> <<"1","2",":","3","0">>, end_hour |-> <<"1","3",":","0","0">>],
           [title |-> <<"E","l","l","e","n","'","s"," ","G","a","m","e"," ","o","f"," ","G","a","m","e","s">>,
            start_hour |-> <<"1","3",":","0","0">>, end_hour |-> <<"1","4",":","0","0">>],
           [title |-> <<"N","B","C"," ","N","i","g","h","t","l","y"," ","N","e","w","s">>,
            start_hour |-> <<"1","4",":","0","0">>, end_hour |-> <<"1","4",":","3","0">>],
           [title |-> <<"E","n","t","e","r","t","a","i","n","m","e","n","t"," ","T","o","n","i","g","h","t">>,
            start_hour |-> <<"1","4",":","3","0">>, end_hour |-> <<"1","5",":","0","0">>],
           [title |-> <<"J","u","d","g","e"," ","J","e","r","r","y">>,
            start_hour |-> <<"1","5",":","0","0">>, end_hour |-> <<"1","6",":","0","0">>],
           [title |-> <<"L","o","c","a","l"," ","N","e","w","s">>,
            start_hour |-> <<"1","6",":","0","0">>, end_hour |-> <<"1","7",":","0","0">>],
           [title |-> <<"T","h","e"," ","V","o","i","c","e">>,
            start_hour |-> <<"1","7",":","0","0">>, end_hour |-> <<"1","9",":","0","0">>],
           [title |-> <<"C","h","i","c","a","g","o"," ","F","i","r","e">>,
            start_hour |-> <<"1","9",":","0","0">>, end_hour |-> <<"2","0",":","0","0">>],
           [title |-> <<"C","h","i","c","a","g","o"," ","P",".","D",".">>,
            start_hour |-> <<"2","0",":","0","0">>, end_hour |-> <<"2","1",":","0","0">>],
           [title |-> <<"C","h","i","c","a","g","o"," ","M","e","d">>,
            start_hour |-> <<"2","1",":","0","0">>, end_hour |-> <<"2","2",":","0","0">>],
           [title |-> <<"T","h","e"," ","T","o","n","i","g","h","t"," ","S","h","o","w">>,
            start_hour |-> <<"2","2",":","0","0">>, end_hour |-> <<"2","3",":","0","0">>],
           [title |-> <<"L","a","t","e"," ","N","i","g","h","t">>,
            start_hour |-> <<"2","3",":","0","0">>, end_hour |-> <<"2","3",":","5","9">>] >>],
       [id |-> <<"1","5",".","1">>, listed |-> <<
           [title |-> <<"P","B","S"," ","N","e","w","s","H","o","u","r">>,
            start_hour |-> <<"6",":","0","0">>, end_hour |-> <<"7",":","0","0">>],
           [title |-> <<"N","a","t","u","r","e">>,
            start_hour |-> <<"7",":","0","0">>, end_hour |-> <<"8",":","0","0">>],
           [title |-> <<"N","O","V","A">>,
            start_hour |-> <<"8",":","0","0">>, end_hour |-> <<"9",":","0","0">>],
           [title |-> <<"F","r","o","n","t","l","i","n","e">>,
            start_hour |-> <<"9",":","0","0">>, end_hour |-> <<"1","0",":","0","0">>],
           [title |-> <<"A","m","e","r","i","c","a","n"," ","E","x","p","e","r","i","e","n","c","e">>,
            start_hour |-> <<"1","0",":","0","0">>, end_hour |-> <<"1","1",":","0","0">>],
           [title |-> <<"M","a","s","t","e","r","p","i","e","c","e">>,
            start_hour |-> <<"1","1",":","0","0">>, end_hour |-> <<"1","3",":","0","0">>],
           [title |-> <<"A","n","t","i","q","u","e","s"," ","R","o","a","d","s","h","o","w">>,
            start_hour |-> <<"1","3",":","0","0">>, end_hour |-> <<"1","4",":","0","0">>],
           [title |-> <<"T","h","i","s"," ","O","l","d"," ","H","o","u","s","e">>,
            start_hour |-> <<"1","4",":","0","0">>, end_hour |-> <<"1","4",":","3","0">>],
           [title |-> <<"A","s","k"," ","T","h","i","s"," ","O","l","d"," ","H","o","u","s","e">>,
            start_hour |-> <<"1","4",":","3","0">>, end_hour |-> <<"1","5",":","0","0">>],
           [title |-> <<"R","i","c","k"," ","S","t","e","v","e","s","'"," ","E","u","r","o","p","e">>,
            start_hour |-> <<"1","5",":","0","0">>, end_hour |-> <<"1","5",":","3","0">>],
           [title |-> <<"A","m","e","r","i","c","a","'","s"," ","T","e","s","t"," ","K","i","t","c","h","e","n">>,
            start_hour |-> <<"1","5",":","3","0">>, end_hour |-> <<"1","6",":","0","0">>],
           [title |-> <<"P","B","S"," ","N","e","w","s","H","o","u","r"," ","W","e","e","k","e","n","d">>,
            start_hour |-> <<"1","6",":","0","0">>, end_hour |-> <<"1","6",":","3","0">>],
           [title |-> <<"W","a","s","h","i","n","g","t","o","n"," ","W","e","e","k">>,
            start_hour |-> <<"1","6",":","3","0">>, end_hour |-> <<"1","7",":","0","0">>],
           [title |-> <<"G","r","e","a","t"," ","P","e","r","f","o","r","m","a","n","c","e","s">>,
            start_hour |-> <<"1","7",":","0","0">>, end_hour |-> <<"1","9",":","0","0">>],
           [title |-> <<"A","u","s","t","i","n"," ","C","i","t","y"," ","L","i","m","i","t","s">>,
            start_hour |-> <<"1","9",":","0","0">>, end_hour |-> <<"2","0",":","0","0">>],
           [title |-> <<"I","n","d","e","p","e","n","d","e","n","t"," ","L","e","n","s">>,
            start_hour |-> <<"2","0",":","0","0">>, end_hour |-> <<"2","2",":","0","0">>],
           [title |-> <<"A","m","a","n","p","o","u","r"," ","a","n","d"," ","C","o","m","p","a","n","y">>,
            start_hour |-> <<"2","2",":","0","0">>, end_hour |-> <<"2","3",":","0","0">>],
           [title |-> <<"B","B","C"," ","W","o","r","l","d"," ","N","e","w","s">>,
            start_hour |-> <<"2","3",":","0","0">>, end_hour |-> <<"2","4",":","0","0">>] >>],
       [id |-> <<"1","0",".","7">>, listed |-> <<
           [title |-> <<"T","o","d","a","y","'","s"," ","S","p","e","c","i","a","l"," ","V","a","l","u","e">>,
            start_hour |-> <<"6",":","0","0">>, end_hour |-> <<"8",":","0","0">>],
           [title |-> <<"F","a","s","h","i","o","n"," ","F","r","i","d","a","y">>,
            start_hour |-> <<"8",":","0","0">>, end_hour |-> <<"1","0",":","0","0">>],
           [title |-> <<"H","o","m","e"," ","S","o","l","u","t","i","o","n","s">>,
            start_hour |-> <<"1","0",":","0","0">>, end_hour |-> <<"1","2",":","0","0">>],
           [title |-> <<"B","e","a","u","t","y"," ","R","e","p","o","r","t">>,
            start_hour |-> <<"1","2",":","0","0">>, end_hour |-> <<"1","4",":","0","0">>],
           [title |-> <<"E","l","e","c","t","r","o","n","i","c","s"," ","T","o","d","a","y">>,
            start_hour |-> <<"1","4",":","0","0">>, end_hour |-> <<"1","6",":","0","0">>],
           [title |-> <<"J","e","w","e","l","r","y"," ","S","h","o","w","c","a","s","e">>,
            start_hour |-> <<"1","6",":","0","0">>, end_hour |-> <<"1","8",":","0","0">>],
           [title |-> <<"K","i","t","c","h","e","n"," ","&"," ","D","i","n","i","n","g">>,
            start_hour |-> <<"1","8",":","0","0">>, end_hour |-> <<"2","0",":","0","0">>],
           [title |-> <<"H","e","a","l","t","h"," ","&"," ","F","i","t","n","e","s","s">>,
            start_hour |-> <<"2","0",":","0","0">>, end_hour |-> <<"2","2",":","0","0">>],
           [title |-> <<"P","M"," ","S","t","y","l","e">>,
            start_hour |-> <<"2","2",":","0","0">>, end_hour |-> <<"2","3",":","5","9">>] >>] >>

\* programs[channel_id], empty when channel_id is not in programs (line 179)
SimpleListed(channel_id) ==
    IF \E k \in DOMAIN simple_programs : simple_programs[k].id = channel_id
    THEN simple_programs[CHOOSE k \in DOMAIN simple_programs :
                            simple_programs[k].id = channel_id].listed
    ELSE <<>>

\* int(t.split(':')[0]) and int(t.split(':')[1])
SimpleHour(t) == ParseInt(Before(t, ":")).val
SimpleMinute(t) == ParseInt(After(t, ":")).val

\* lines 181-196: start_time and end_time of a listed programme
SimpleStartTime(p, base_date) ==
    ReplaceHM(base_date, SimpleHour(p.start_hour), SimpleMinute(p.start_hour)).val
SimpleEndTime(p, base_date) ==
    LET end_time ==
            IF SimpleHour(p.end_hour) >= 24
            THEN AddHours(ReplaceHM(base_date, 23, 59).val, 24)
            ELSE ReplaceHM(base_date, SimpleHour(p.end_hour),
                           SimpleMinute(p.end_hour)).val
    IN  IF end_time.date * 86400 + end_time.secs
              <= SimpleStartTime(p, base_date).date * 86400
                 + SimpleStartTime(p, base_date).secs
        THEN AddHours(end_time, 24)
        ELSE end_time

\* lines 178-201: the programmes of one channel
SimpleProgrammes(channel_id, base_date) ==
    [i \in DOMAIN SimpleListed(channel_id) |->
        ProgrammeElem(channel_id,
            Strftime_z(SimpleStartTime(SimpleListed(channel_id)[i], base_date)),
            Strftime_z(SimpleEndTime(SimpleListed(channel_id)[i], base_date)),
            SimpleListed(channel_id)[i].title)]

\* generate_realistic_sample_data(), lines 85-203; now is datetime.now()
generate_realistic_sample_data(now) ==
    Tree("Simple EPG Scraper",
         [k \in DOMAIN simple_channels |->
             ChannelElem(simple_channels[k].id, <<simple_channels[k].name>>)]
         \o Flatten([k \in DOMAIN simple_channels |->
                        SimpleProgrammes(simple_channels[k].id,
                                         ReplaceHM(now, 6, 0).val)],
                    1, Len(simple_channels)))

\* what get_tvlistings_data leaves main with: an answer that holds airings,
\* one that holds none, or None after a failed request
SimpleFetched == {"airings", "no airings", "None"}

SimpleInit ==
    /\ script = "simple_epg"
    /\ pc = "fetch"
    /\ loc = [data |-> "none"]
    /\ root = EmptyTree
    /\ output = NoOutput
    /\ exit_code = Running
    /\ error = "none"
    /\ calls = <<>>

\* get_tvlistings_data(zip_code), lines 47-83, and main lines 220-222: the
\* answer holds airings, or holds none, or the request fails
SimpleFetch ==
    /\ script = "simple_epg" /\ pc = "fetch"
    /\ calls' = Append(calls, Get(airings_url))
    /\ \E data \in SimpleFetched :
          loc' = [loc EXCEPT !.data = data]
    /\ pc' = "generate"
    /\ UNCHANGED <<script, root, output, exit_code, error>>

\* main, lines 222-229: the document for a fetch result; both branches build
\* the sample document
SimpleRootMarked(data, now) ==
    IF data = "airings"
    THEN generate_realistic_sample_data(now)
    ELSE Tree("Simple EPG Scraper Fallback",
              generate_realistic_sample_data(now).children)

SimpleRoot(data, now) ==
    IF data = "airings"
    THEN generate_realistic_sample_data(now)
    ELSE generate_realistic_sample_data(now)

SimpleGenerate ==
    /\ script = "simple_epg" /\ pc = "generate"
    /\ \E now \in Clock :
          /\ root' = SimpleRoot(loc.data, now)
          /\ loc' = [data |-> loc.data, now |-> now]
    /\ pc' = "write"
    /\ UNCHANGED <<script, output, exit_code, error, calls>>

\* main, lines 233-240
SimpleWrite ==
    /\ script = "simple_epg" /\ pc = "write"
    /\ output' = WriteFile("xmltv", root)
    /\ pc' = "done"
    /\ exit_code' = "0"
    /\ UNCHANGED <<script, loc, root, error, calls>>

NextSimple == SimpleFetch \/ SimpleGenerate \/ SimpleWrite

----------------------------------------------------------------------------
(* ontvtonight_scraper.py                                                  *)

\* line 40, for the default region and the date of the run; the periods are
\* those of line 23, the same list as time_periods above
OntvGuideUrl(period) == GuideUrl(period) \o "&date="

\* lines 91-96, for the default region and the date of the run
api_patterns ==
    << "https://www.ontvtonight.com/api/guide?region=10199&date=",
       "https://www.ontvtonight.com/api/listings?region=10199&date=",
       "https://api.ontvtonight.com/guide?region=10199&date=",
       "https://www.ontvtonight.com/guide/api?region=10199&date=" >>

\* lines 125-132: the six stations, in the order of the dict
ontv_channel_mappings == SubSeq(channel_mappings, 1, 6)

\* lines 154-175
sample_programs ==
    <<
       [id |-> <<"1","0",".","1">>, programs |-> <<
           [time |-> <<"1","2",":","0","0">>,
            title |-> <<"N","B","C"," ","N","e","w","s"," ","D","a","i","l","y">>],
           [time |-> <<"1","3",":","0","0">>,
            title |-> <<"G","e","n","e","r","a","l"," ","H","o","s","p","i","t","a","l">>],
           [time |-> <<"1","4",":","0","0">>,
            title |-> <<"T","h","e"," ","V","i","e","w">>] >>],
       [id |-> <<"3","9",".","1">>, programs |-> <<
           [time |-> <<"1","2",":","0","0">>,
            title |-> <<"N","B","C"," ","N","e","w","s"," ","D","a","i","l","y">>],
           [time |-> <<"1","3",":","0","0">>,
            title |-> <<"D","a","y","s"," ","o","f"," ","O","u","r"," ","L","i","v","e","s">>],
           [time |-> <<"1","4",":","0","0">>,
            title |-> <<"C","a","l","i","f","o","r","n","i","a"," ","L","i","v","e">>] >>],
       [id |-> <<"8",".","1">>, programs |-> <<
           [time |-> <<"1","2",":","0","0">>,
            title |-> <<"T","h","e"," ","P","r","i","c","e"," ","i","s"," ","R","i","g","h","t">>],
           [time |-> <<"1","3",":","0","0">>,
            title |-> <<"T","h","e"," ","Y","o","u","n","g"," ","a","n","d"," ","t","h","e"," ","R","e","s","t","l","e","s","s">>],
           [time |-> <<"1","4",":","0","0">>,
            title |-> <<"T","h","e"," ","B","o","l","d"," ","a","n","d"," ","t","h","e"," ","B","e","a","u","t","i","f","u","l">>] >>],
       [id |-> <<"6","9",".","1">>, programs |-> <<
           [time |-> <<"1","2",":","0","0">>,
            title |-> <<"T","M","Z"," ","L","i","v","e">>],
           [time |-> <<"1","3",":","0","0">>,
            title |-> <<"J","u","d","g","e"," ","J","u","d","y">>],
           [time |-> <<"1","4",":","0","0">>,
            title |-> <<"T","h","e"," ","P","e","o","p","l","e","'","s"," ","C","o","u","r","t">>] >>] >>

\* lines 178-198: the programmes of one entry of sample_programs
OntvProgrammes(entry, now) ==
    [i \in DOMAIN entry.programs |->
        LET start_time ==
                ReplaceHM(now, SimpleHour(entry.programs[i].time),
                          SimpleMinute(entry.programs[i].time)).val
        IN  ProgrammeElem(entry.id, Strftime_z(start_time),
                          Strftime_z(AddHours(start_time, 1)),
                          entry.programs[i].title)]

\* create_xmltv_from_ontvtonight(data), lines 116-200; now is the
\* datetime.now() of line 152.  The branch of lines 146-149 only prints.
create_xmltv_from_ontvtonight(data, now) ==
    Tree("OnTVTonight San Diego",
         [k \in DOMAIN ontv_channel_mappings |->
             ChannelElem(ontv_channel_mappings[k].id,
                         <<ontv_channel_mappings[k].name,
                           ontv_channel_mappings[k].call_sign>>)]
         \o Flatten([k \in DOMAIN sample_programs |->
                        OntvProgrammes(sample_programs[k], now)],
                    1, Len(sample_programs)))

\* what response.json() of an API endpoint can be, and None when no endpoint
\* answered with JSON (line 114)
OntvData == {"dict", "empty dict", "list", "None"}

OntvInit ==
    /\ script = "ontvtonight"
    /\ pc = "period"
    /\ loc = [period |-> 1, api |-> 1, data |-> "None"]
    /\ root = EmptyTree
    /\ output = NoOutput
    /\ exit_code = Running
    /\ error = "none"
    /\ calls = <<>>

\* fetch_ontvtonight_data, one iteration of the loop of lines 38-85: what the
\* page holds is only printed
OntvFetchPeriod ==
    /\ script = "ontvtonight" /\ pc = "period"
    /\ \/ \* the request raises: continue without sleeping
          calls' = Append(calls, Get(OntvGuideUrl(time_periods[loc.period])))
       \/ calls' = calls \o <<Get(OntvGuideUrl(time_periods[loc.period])),
                              Sleep("1")>>
    /\ loc' = [loc EXCEPT !.period = loc.period + 1]
    /\ pc' = IF loc.period = Len(time_periods) THEN "api" ELSE "period"
    /\ UNCHANGED <<script, root, output, exit_code, error>>

\* fetch_ontvtonight_data, one iteration of the loop of lines 98-112, and the
\* return None of line 114 after the last one
OntvApi ==
    /\ script = "ontvtonight" /\ pc = "api"
    /\ calls' = Append(calls, Get(api_patterns[loc.api]))
    /\ \/ \* the request raises, the status is not 200, or the body is not JSON
          /\ loc' = [loc EXCEPT !.api = loc.api + 1]
          /\ pc' = IF loc.api = Len(api_patterns) THEN "convert" ELSE "api"
       \/ \E data \in OntvData \ {"None"} :
            /\ loc' = [loc EXCEPT !.data = data]
            /\ pc' = "convert"
    /\ UNCHANGED <<script, root, output, exit_code, error>>

\* main, line 216
OntvConvert ==
    /\ script = "ontvtonight" /\ pc = "convert"
    /\ \E now \in Clock :
          /\ root' = create_xmltv_from_ontvtonight(loc.data, now)
          /\ loc' = [period |-> loc.period, api |-> loc.api,
                     data |-> loc.data, now |-> now]
    /\ pc' = "write"
    /\ UNCHANGED <<script, output, exit_code, error, calls>>

\* main, lines 218-234
OntvWrite ==
    /\ script = "ontvtonight" /\ pc = "write"
    /\ output' = WriteFile("xmltv", root)
    /\ pc' = "done"
    /\ exit_code' = "0"
    /\ UNCHANGED <<script, loc, root, error, calls>>

NextOntv == OntvFetchPeriod \/ OntvApi \/ OntvConvert \/ OntvWrite

----------------------------------------------------------------------------
(* extract_programs_from_page (ontvtonight_auth_scraper.py) called on its  *)
(* own: the records the parsers of lines 133-168 collected from a page go  *)
(* in, the list of line 179 comes out.  A field a parser left out and an   *)
(* empty field are the same to the key of line 174, and are both <<>>.     *)

MaxFound == 3   \* records the parsers collect from one page

\* records that share a channel, a time or a title with one another; every
\* parser requires a title (lines 217, 233-237, 257)
FoundPrograms ==
    { Program(channel, time, title) :
        channel \in {lit.KGTV, <<>>},
        time \in {sample.t_8_00_PM, <<>>},
        title \in {sample.News_sp \o <<"1">>, sample.News_sp \o <<"2">>} }

ExtractInit ==
    /\ script = "extract_programs_from_page"
    /\ pc = "call"
    /\ \E programs \in SeqsUpTo(FoundPrograms, MaxFound) :
          loc = [programs |-> programs, unique_programs |-> <<>>]
    /\ root = EmptyTree
    /\ output = NoOutput
    /\ exit_code = Running
    /\ error = "none"
    /\ calls = <<>>

\* lines 170-179
ExtractReturn ==
    /\ script = "extract_programs_from_page" /\ pc = "call"
    /\ loc' = [loc EXCEPT !.unique_programs =
                              extract_programs_from_page(loc.programs)]
    /\ pc' = "return"
    /\ UNCHANGED <<script, root, output, exit_code, error, calls>>

SpecExtract == ExtractInit /\ [][ExtractReturn]_vars

----------------------------------------------------------------------------

Init ==
    EpgInit \/ AuthInit \/ GraceInit \/ TvInit \/ ZapInit \/ OtaInit
    \/ SimpleInit \/ OntvInit

Next ==
    NextEpg \/ NextAuth \/ NextGrace \/ NextTv \/ NextZap \/ NextOta
    \/ NextSimple \/ NextOntv

Spec == Init /\ [][Next]_vars

SpecEpg  == EpgInit /\ [][NextEpg]_vars
SpecAuth == AuthInit /\ [][NextAuth]_vars
SpecGrace == GraceInit /\ [][NextGrace]_vars
SpecTv == TvInit /\ [][NextTv]_vars
SpecZap == ZapInit /\ [][NextZap]_vars
SpecOta == OtaInit /\ [][NextOta]_vars
\* a script is a sequential process that takes its next step as long as
\* it has one
SpecOtaFair == OtaInit /\ [][NextOta]_vars /\ WF_vars(NextOta)

----------------------------------------------------------------------------
(* Reading a document back: what the claims below measure.                 *)

IsChannel(e)   == e.tag = "channel"
IsProgramme(e) == e.tag = "programme"
ChannelsOf(doc)   == SelectSeq(doc.children, IsChannel)
ProgrammesOf(doc) == SelectSeq(doc.children, IsProgramme)

Written == output.written /\ output.kind = "xmltv"

\* YYYYMMDDHHMMSS, one space, a sign and four digits
WellFormedXmltvTime(s) ==
    /\ Len(s) = 20
    /\ AllDigits(s, 1, 14)
    /\ s[15] = " "
    /\ s[16] \in {"+", "-"}
    /\ AllDigits(s, 17, 20)

\* the instant an XMLTV time denotes, in seconds since 2025-01-01T00:00 UTC;
\* digits without an offset are read as UTC
XmltvInstant(s) ==
    (DaysFromCivil(NumAt(s, 1, 4), NumAt(s, 5, 6), NumAt(s, 7, 8)) * 86400
     + NumAt(s, 9, 10) * 3600 + NumAt(s, 11, 12) * 60 + NumAt(s, 13, 14))
    - (IF WellFormedXmltvTime(s)
       THEN (IF s[16] = "-" THEN -1 ELSE 1)
                * (NumAt(s, 17, 18) * 3600 + NumAt(s, 19, 20) * 60)
       ELSE 0)

\* an ISO-8601 timestamp that carries its offset, and the instant it denotes
HasExplicitOffset(s) == StrptimeIsoZ(s).ok
IsoInstant(s) ==
    StrptimeIsoZ(s).val.date * 86400 + StrptimeIsoZ(s).val.secs
    - StrptimeIsoZ(s).val.off * 60

\* the labels of the case-insensitivity claim
KgtvLabels == {sample.kgtv, lit.KGTV, lit.KGTV_HD}

\* a label that equals no alias and contains none, whatever the case
NoAliasIn(label, table) ==
    \A k \in DOMAIN table : ~Contains(Upper(label), Upper(table[k].call_sign))


----------------------------------------------------------------------------
(* C1: every document a script writes holds at most one channel element    *)
(* per channel id.                                                         *)
C1_UniqueChannelIds ==
    Written =>
        \A i, j \in DOMAIN ChannelsOf(output.doc) :
            ChannelsOf(output.doc)[i].id = ChannelsOf(output.doc)[j].id
                => i = j

(* C2: in ota_scraper, tvmaze_scraper and ontvtonight_auth_scraper, which   *)
(* compute stop as start plus a duration, every programme element written  *)
(* has its start strictly before its stop.                                 *)
C2_StartBeforeStop ==
    (Written /\ script \in {"ota", "tvmaze", "ontvtonight_auth"}) =>
        \A i \in DOMAIN ProgrammesOf(output.doc) :
            XmltvInstant(ProgrammesOf(output.doc)[i].start)
                < XmltvInstant(ProgrammesOf(output.doc)[i].stop)

(* C3: every start and stop attribute of a written document has the form   *)
(* YYYYMMDDHHMMSS, a space, and a signed four-digit offset.                *)
C3_TimeFormat ==
    Written =>
        \A i \in DOMAIN ProgrammesOf(output.doc) :
            /\ WellFormedXmltvTime(ProgrammesOf(output.doc)[i].start)
            /\ WellFormedXmltvTime(ProgrammesOf(output.doc)[i].stop)

(* C4: a source timestamp in ISO-8601 form with an explicit offset is       *)
(* written as an XMLTV time that denotes the same instant: the airstamp of  *)
(* a TVMaze entry that yields a programme, and the startTime and endTime    *)
(* (start before end) of an event of the Zap2it grid.                       *)
C4_SameInstant ==
    /\ (script = "tvmaze" /\ Written) =>
          \A i \in DOMAIN loc.data.entries :
             LET e == loc.data.entries[i]
             IN  (HasExplicitOffset(e.airstamp) /\ TvProgramme(e) # <<>>)
                 => \E k \in DOMAIN ProgrammesOf(output.doc) :
                       XmltvInstant(ProgrammesOf(output.doc)[k].start)
                           = IsoInstant(e.airstamp)
    /\ (script = "zap2it" /\ Written /\ loc.live) =>
          \A c \in DOMAIN loc.guide_data :
             \A i \in DOMAIN loc.guide_data[c].events :
                LET ev == loc.guide_data[c].events[i]
                IN  (/\ HasExplicitOffset(ev.startTime)
                     /\ HasExplicitOffset(ev.endTime)
                     /\ IsoInstant(ev.startTime) < IsoInstant(ev.endTime))
                    => \E k \in DOMAIN ProgrammesOf(output.doc) :
                          LET p == ProgrammesOf(output.doc)[k]
                          IN  /\ p.channel = loc.guide_data[c].channelId
                              /\ XmltvInstant(p.start) = IsoInstant(ev.startTime)
                              /\ XmltvInstant(p.stop) = IsoInstant(ev.endTime)

(* C5: every run that has ended has written a file at the output path.     *)
C5_OutputAlwaysWritten ==
    exit_code # Running => output.written

(* C6: a run that completes exits with 0, and a run exits with 1 only when *)
(* an error stopped it (an exception, or a rejected login); finding no     *)
(* live data is no such error.                                             *)
C6_ExitOneOnlyOnError ==
    pc = "done" => (exit_code = "0" <=> error = "none")

\* the requests of a run to the candidate URLs of a list, in the order issued
IsCandidateGet(call, candidates) ==
    call.op = "GET" /\ \E k \in DOMAIN candidates : candidates[k] = call.url
CandidateGets(candidates) ==
    SelectSeq(calls, LAMBDA call : IsCandidateGet(call, candidates))

\* the k-th request went to the k-th candidate, and only the last request
\* of a run may be the one that yielded content
RequestedOnceInOrder(candidates) ==
    LET gets == CandidateGets(candidates)
    IN  /\ Len(gets) <= Len(candidates)
        /\ \A k \in DOMAIN gets : gets[k].url = candidates[k]
        /\ Len(loc.results) = Len(gets)
        /\ \A k \in DOMAIN loc.results :
              loc.results[k] \in {"content", "data"} => k = Len(gets)

(* C7: in gracenote_scraper, a run that fetched the grid page with status  *)
(* 200 and found no schedule data in it has called try_api_endpoints by    *)
(* the time it converts and writes the document.                           *)
C7_NoDataFallsThrough ==
    (/\ script = "gracenote" /\ pc \in {"write", "done"}
     /\ loc.grid = "200" /\ loc.page \in {"plain", "broken"})
    => \E k \in DOMAIN calls : calls[k] = Get(endpoints_to_try[1])

(* C8: no request is retried: fetch_epgshare_data and try_api_endpoints    *)
(* request each candidate URL at most once, in list order, and request     *)
(* nothing after the first candidate that yielded usable data.             *)
C8_NoRetryInOrder ==
    /\ script = "epgshare" => RequestedOnceInOrder(epg_files)
    /\ script = "gracenote" => RequestedOnceInOrder(endpoints_to_try)

\* a run that ended after a failed endpoint and then one that held data
C8_Witness ==
    /\ script = "gracenote" /\ pc = "done"
    /\ loc.results = <<"failed", "data">>
    /\ CandidateGets(endpoints_to_try)
         = <<Get(endpoints_to_try[1]), Get(endpoints_to_try[2])>>

(* C9: channel lookup ignores case.  In the EPGShare filter every feed     *)
(* channel whose id or display name is 'kgtv', 'KGTV' or 'KGTV-HD' is kept *)
(* with id 10.1, and every feed programme whose channel reference is one   *)
(* of them is kept under 10.1 (when the filter returns a document); in     *)
(* create_xmltv_from_data every record with such a channel, a title and a  *)
(* time the parser accepts gives a programme under 10.1.                   *)
C9_EpgCaseInsensitive ==
    (script = "epgshare" /\ pc \in {"write", "done"}
     /\ loc.xmltv_content.parses) =>
        /\ \A i \in DOMAIN loc.xmltv_content.channels :
             LET c == loc.xmltv_content.channels[i]
             IN  (c.id \in KgtvLabels
                  \/ \E n \in DOMAIN c.names : c.names[n] \in KgtvLabels)
                 => /\ loc.filtered_content.some
                    /\ \E k \in DOMAIN ChannelsOf(root) :
                         /\ ChannelsOf(root)[k].names = c.names
                         /\ ChannelsOf(root)[k].id = lit.id_10_1
        /\ loc.filtered_content.some =>
             \A i \in DOMAIN loc.xmltv_content.programmes :
                LET p == loc.xmltv_content.programmes[i]
                IN  p.channel \in KgtvLabels
                    => \E k \in DOMAIN ProgrammesOf(root) :
                         /\ ProgrammesOf(root)[k].title = p.title
                         /\ ProgrammesOf(root)[k].channel = lit.id_10_1

C9_AuthCaseInsensitive ==
    (script = "ontvtonight_auth" /\ Written) =>
        \A i \in DOMAIN loc.all_programs :
            \A j \in DOMAIN loc.all_programs[i].programs :
                LET r == loc.all_programs[i].programs[j]
                IN  (/\ r.channel \in KgtvLabels
                     /\ r.time \in {sample.t_8_00_PM, sample.t_12_30_AM, sample.t_23_30}
                     /\ Strip(r.title) # <<>>)
                    => \E k \in DOMAIN ProgrammesOf(output.doc) :
                         /\ ProgrammesOf(output.doc)[k].title = Strip(r.title)
                         /\ ProgrammesOf(output.doc)[k].channel = lit.id_10_1

C9_LookupIgnoresCase == C9_EpgCaseInsensitive /\ C9_AuthCaseInsensitive

\* a lower-case 'kgtv' programme reference was kept under 10.1
C9_Witness ==
    /\ script = "epgshare" /\ pc = "done" /\ Written
    /\ \E i \in DOMAIN loc.xmltv_content.programmes :
         /\ loc.xmltv_content.programmes[i].channel = sample.kgtv
         /\ \E k \in DOMAIN ProgrammesOf(output.doc) :
              /\ ProgrammesOf(output.doc)[k].title
                   = loc.xmltv_content.programmes[i].title
              /\ ProgrammesOf(output.doc)[k].channel = lit.id_10_1

(* C10: a label that neither equals nor contains an alias is unmapped: no  *)
(* programme carrying such a label is written under a local channel id.    *)
C10_UnmappedNeverResolved ==
    /\ (script = "epgshare" /\ pc = "done" /\ loc.filtered_content.some) =>
          \A i \in DOMAIN loc.xmltv_content.programmes :
             LET p == loc.xmltv_content.programmes[i]
             IN  NoAliasIn(p.channel, san_diego_channels)
                 => ~\E k \in DOMAIN ProgrammesOf(output.doc) :
                        ProgrammesOf(output.doc)[k].title = p.title
    /\ (script = "ontvtonight_auth" /\ Written) =>
          \A i \in DOMAIN loc.all_programs :
             \A j \in DOMAIN loc.all_programs[i].programs :
                LET r == loc.all_programs[i].programs[j]
                IN  NoAliasIn(Strip(r.channel), channel_mappings)
                    => ~\E k \in DOMAIN ProgrammesOf(output.doc) :
                           ProgrammesOf(output.doc)[k].title = Strip(r.title)

(* C11: adding a programme whose stop is not strictly after its start is   *)
(* rejected with an InvalidTimeRange error and appends nothing: in the      *)
(* documents gracenote_scraper and tvmaze_scraper build through            *)
(* add_program_to_xmltv, every source record whose end is not after its    *)
(* start leaves no programme element and the run reports the error.        *)
GraceRejected(program) ==
    /\ FromIsoFormat(ReplaceZ(program.start_time)).ok
    /\ FromIsoFormat(ReplaceZ(program.end_time)).ok
    /\ HasExplicitOffset(ReplaceZ(program.start_time))
    /\ HasExplicitOffset(ReplaceZ(program.end_time))
    /\ IsoInstant(ReplaceZ(program.end_time))
          <= IsoInstant(ReplaceZ(program.start_time))

C11_InvalidRangeRejected ==
    /\ (script = "gracenote" /\ pc = "done" /\ "programs" \in loc.data.keys) =>
          \A i \in DOMAIN loc.data.programs :
             GraceRejected(loc.data.programs[i])
             => /\ error = "InvalidTimeRange"
                /\ ProgrammesOf(root) = <<>>
    /\ (script = "tvmaze" /\ pc = "done") =>
          \A i \in DOMAIN loc.data.entries :
             (TvProgramme(loc.data.entries[i]) # <<>>
              /\ TvMinutes(loc.data.entries[i]) <= 0)
             => /\ error = "InvalidTimeRange"
                /\ ProgrammesOf(root) = <<>>

(* C12: for every non-empty channel id and every non-empty sequence of     *)
(* display names, adding the channel yields exactly one channel element    *)
(* with that id whose display-name children are those names in order: the  *)
(* channel elements of the ota and gracenote documents are, one for one    *)
(* and in order, the channels handed to the script with all their labels.  *)
GraceLabels(channel) ==
    (IF channel.name # <<>> THEN <<channel.name>> ELSE <<>>)
    \o (IF channel.callsign # <<>> THEN <<channel.callsign>> ELSE <<>>)

C12_ChannelAddedWithNames ==
    /\ (script = "ota" /\ pc # "channels") =>
          /\ Len(ChannelsOf(root)) = Len(ota_channels)
          /\ \A k \in DOMAIN ota_channels :
                /\ ChannelsOf(root)[k].id = ota_channels[k].id
                /\ ChannelsOf(root)[k].names
                     = <<ota_channels[k].name, ota_channels[k].call_sign>>
    /\ (script = "gracenote" /\ pc = "done" /\ "channels" \in loc.data.keys) =>
          /\ Len(ChannelsOf(root)) = Len(loc.data.channels)
          /\ \A k \in DOMAIN loc.data.channels :
                GraceLabels(loc.data.channels[k]) # <<>>
                => /\ ChannelsOf(root)[k].id = loc.data.channels[k].id
                   /\ ChannelsOf(root)[k].names
                        = GraceLabels(loc.data.channels[k])

\* the XMLTV times 20250101060000 -0800 and 20250101070000 -0800
Xmltv_0600_pst == SubSeq(sample.FeedStart, 1, 15) \o <<"-", "0", "8", "0", "0">>
Xmltv_0700_pst == SubSeq(sample.FeedStop, 1, 15) \o <<"-", "0", "8", "0", "0">>

\* the document holds a programme on the channel running 06:00 to 07:00 -0800
HasMorningHour(doc, channel) ==
    \E k \in DOMAIN ProgrammesOf(doc) :
        /\ ProgrammesOf(doc)[k].channel = channel
        /\ ProgrammesOf(doc)[k].start = Xmltv_0600_pst
        /\ ProgrammesOf(doc)[k].stop = Xmltv_0700_pst

(* C13: a programme with start 2025-01-01T06:00:00-08:00 and stop          *)
(* 2025-01-01T07:00:00-08:00 is written with start '20250101060000 -0800'  *)
(* and stop '20250101070000 -0800' on its channel: the offset and the      *)
(* wall-clock time of the input are kept, by gracenote_scraper for a       *)
(* program with these start and end times and by tvmaze_scraper for an     *)
(* entry with this airstamp and a runtime of 60 minutes.                   *)
C13_OffsetAndWallClockKept ==
    /\ (script = "gracenote" /\ Written /\ "programs" \in loc.data.keys) =>
          \A i \in DOMAIN loc.data.programs :
             LET p == loc.data.programs[i]
             IN  (p.start_time = sample.iso_0600_pst
                  /\ p.end_time = sample.iso_0700_pst)
                 => HasMorningHour(output.doc, p.channel_id)
    /\ (script = "tvmaze" /\ Written) =>
          \A i \in DOMAIN loc.data.entries :
             LET e == loc.data.entries[i]
             IN  (e.airstamp = sample.iso_0600_pst
                  /\ e.runtime = Runtime("int", 60))
                 => HasMorningHour(output.doc, TvChannelId(e))

\* a gracenote run wrote the programme of such a record on channel 10.1
C13_Witness ==
    /\ script = "gracenote" /\ Written /\ "programs" \in loc.data.keys
    /\ \E i \in DOMAIN loc.data.programs :
          /\ loc.data.programs[i].channel_id = lit.id_10_1
          /\ loc.data.programs[i].start_time = sample.iso_0600_pst
          /\ loc.data.programs[i].end_time = sample.iso_0700_pst
    /\ HasMorningHour(output.doc, lit.id_10_1)

\* an ISO-8601 timestamp YYYY-MM-DDTHH:MM:SS without an offset, and the
\* XMLTV time that reads it as UTC: its digits and the offset +0000
HasNoOffset(s) == Len(s) = 19 /\ IsoDateTimeOk(s)
ReadAsUtc(s) ==
    SubSeq(s, 1, 4) \o SubSeq(s, 6, 7) \o SubSeq(s, 9, 10) \o SubSeq(s, 12, 13)
    \o SubSeq(s, 15, 16) \o SubSeq(s, 18, 19) \o <<" ", "+", "0", "0", "0", "0">>

(* C14: an ISO-8601 timestamp without an explicit offset is read as UTC:   *)
(* the start attribute written for it is its wall-clock digits with the    *)
(* offset +0000, for a program of the gracenote data (whose end time       *)
(* parses) as for an event of the zap2it grid.                             *)
C14_NoOffsetMeansUtc ==
    /\ (script = "gracenote" /\ Written /\ "programs" \in loc.data.keys) =>
          \A i \in DOMAIN loc.data.programs :
             LET p == loc.data.programs[i]
             IN  (HasNoOffset(p.start_time)
                  /\ FromIsoFormat(ReplaceZ(p.end_time)).ok)
                 => \E k \in DOMAIN ProgrammesOf(output.doc) :
                       /\ ProgrammesOf(output.doc)[k].channel = p.channel_id
                       /\ ProgrammesOf(output.doc)[k].start
                            = ReadAsUtc(p.start_time)
    /\ (script = "zap2it" /\ Written /\ loc.live) =>
          \A c \in DOMAIN loc.guide_data :
             \A i \in DOMAIN loc.guide_data[c].events :
                LET ev == loc.guide_data[c].events[i]
                IN  HasNoOffset(ev.startTime)
                    => \E k \in DOMAIN ProgrammesOf(output.doc) :
                          /\ ProgrammesOf(output.doc)[k].channel
                               = loc.guide_data[c].channelId
                          /\ ProgrammesOf(output.doc)[k].start
                               = ReadAsUtc(ev.startTime)

\* no programme element stands before a channel element
ChannelsFirst(doc) ==
    \A i, j \in DOMAIN doc.children :
        (IsProgramme(doc.children[i]) /\ IsChannel(doc.children[j])) => j < i

C16_ChannelHasDisplayName ==
    /\ \A k \in DOMAIN ChannelsOf(root) : ChannelsOf(root)[k].names # <<>>
    /\ Written =>
          \A k \in DOMAIN ChannelsOf(output.doc) :
              ChannelsOf(output.doc)[k].names # <<>>

\* a request for the guide page of one of the periods
IsPeriodGet(call) ==
    call.op = "GET"
    /\ \E k \in DOMAIN time_periods : call.url = GuideUrl(time_periods[k])

(* C17: the politeness delay does not depend on the outcome of a request:  *)
(* in get_tv_guide_data the same sleep of one second separates every two   *)
(* consecutive period requests, whether the earlier one succeeded or       *)
(* raised.                                                                 *)
C17_SleepBetweenPeriodRequests ==
    script = "ontvtonight_auth" =>
        \A k \in DOMAIN calls :
            (IsPeriodGet(calls[k]) /\ k < Len(calls))
            => calls[k + 1] = Sleep("1")

\* parsing a written document back (ET.fromstring, minidom.parseString).
\* The depth of token j inside the element whose start tag is token p:
Depth(toks, p, j) ==
    Cardinality({k \in (p + 1)..(j - 1) : toks[k].k = "start"})
    - Cardinality({k \in (p + 1)..(j - 1) : toks[k].k = "end"})

\* the end tag that closes the start tag at p
EndOf(toks, p) ==
    CHOOSE q \in (p + 1)..Len(toks) :
        /\ toks[q].k = "end" /\ Depth(toks, p, q) = 0
        /\ \A r \in (p + 1)..(q - 1) :
               ~(toks[r].k = "end" /\ Depth(toks, p, r) = 0)

\* the child nodes of the element whose start tag is token p: character
\* data between tags is a text node
RECURSIVE ParseKids(_, _)
ParseKids(toks, p) ==
    LET q == EndOf(toks, p)
        inside == [j \in 1..(q - p - 1) |-> p + j]
        own == SelectSeq(inside,
                         LAMBDA j : toks[j].k # "end" /\ Depth(toks, p, j) = 0)
    IN  [n \in DOMAIN own |->
            IF toks[own[n]].k = "chars" THEN TextNode(toks[own[n]].data)
            ELSE ElemNode(toks[own[n]].tag, toks[own[n]].attrs,
                          IF toks[own[n]].k = "start"
                          THEN ParseKids(toks, own[n]) ELSE <<>>)]

\* the root element of a written document
ParseRoot(toks) ==
    LET p == CHOOSE i \in DOMAIN toks :
                 /\ toks[i].k \in {"start", "empty"}
                 /\ \A h \in 1..(i - 1) : toks[h].k \notin {"start", "empty"}
    IN  ElemNode(toks[p].tag, toks[p].attrs,
                 IF toks[p].k = "start" THEN ParseKids(toks, p) ELSE <<>>)

(* C18: serializing a document, parsing the result back and serializing    *)
(* again yields the same bytes, for the document ota_scraper writes with   *)
(* ET.indent and tree.write and for the document zap2it_selenium_scraper   *)
(* writes with toprettyxml.                                                *)
C18_SerializeIsFixedPoint ==
    /\ (script = "ota" /\ Written) =>
          EtSerialize(ParseRoot(EtSerialize(Dom(output.doc))))
              = EtSerialize(Dom(output.doc))
    /\ (script = "zap2it" /\ Written) =>
          toprettyxml(ParseRoot(toprettyxml(Dom(output.doc))))
              = toprettyxml(Dom(output.doc))

(* C19: generate_sample_data produces 24 hours of programming per channel: *)
(* each of the six channels gets events that are contiguous (every         *)
(* event's startTime is the endTime of the event before it) and that span  *)
(* 24 hours from the first startTime to the last endTime.                  *)
C19_SampleDataSpansDay ==
    (script = "zap2it" /\ ~loc.live /\ loc.guide_data # <<>>) =>
        /\ Len(loc.guide_data) = 6
        /\ \A c \in DOMAIN loc.guide_data :
              LET events == loc.guide_data[c].events
              IN  /\ events # <<>>
                  /\ \A i \in 2..Len(events) :
                        events[i].startTime = events[i - 1].endTime
                  /\ IsoInstant(events[Len(events)].endTime)
                        - IsoInstant(events[1].startTime) = 24 * 3600

\* the length in minutes of the interval a programme is listed with; an end
\* of 24:00 is the midnight that ends the day
ListedMinutes(p) ==
    (SimpleHour(p.end_hour) * 60 + SimpleMinute(p.end_hour))
    - (SimpleHour(p.start_hour) * 60 + SimpleMinute(p.start_hour))

\* the programmes of a document on one channel, in document order
ProgrammesOn(doc, channel_id) ==
    SelectSeq(ProgrammesOf(doc), LAMBDA e : e.channel = channel_id)

(* C20: in generate_realistic_sample_data every programme's stop minus     *)
(* start is the length of its listed (start, end) interval, a listed end   *)
(* of 24:00 being the midnight that ends the same day: no programme is     *)
(* written with a duration longer than its listed interval.                *)
C20_DurationIsListedInterval ==
    (script = "simple_epg" /\ pc \in {"write", "done"}) =>
        \A k \in DOMAIN simple_programs :
            LET listed == simple_programs[k].listed
                written == ProgrammesOn(root, simple_programs[k].id)
            IN  /\ Len(written) = Len(listed)
                /\ \A i \in DOMAIN listed :
                      /\ written[i].title = listed[i].title
                      /\ XmltvInstant(written[i].stop)
                            - XmltvInstant(written[i].start)
                         = 60 * ListedMinutes(listed[i])

----------------------------------------------------------------------------
\* C21: the document simple_epg_scraper and ontvtonight_scraper write does
\* not depend on the fetch result: the document of a run is the document of
\* every run at the same clock time with any other fetch result, live data
\* or failure, so nothing in it tells the two apart.
C21_OutputIndependentOfFetch ==
    /\ (script = "simple_epg" /\ Written) =>
          \A data \in SimpleFetched : output.doc = SimpleRoot(data, loc.now)
    /\ (script = "ontvtonight" /\ Written) =>
          \A data \in OntvData :
              output.doc = create_xmltv_from_ontvtonight(data, loc.now)

\* a simple_epg run whose fetch failed has written its document
C21_Witness ==
    script = "simple_epg" /\ Written /\ loc.data = "None"

----------------------------------------------------------------------------
\* C22: generate_ota_programming fills the day of every channel without gap
\* or overlap: the first programme of a channel starts at 06:00 of the
\* current day, each later one starts exactly when the one before it stops,
\* every programme starts on the current day, and the last one stops at or
\* after the following midnight.
C22_DayFilled ==
    (script = "ota" /\ Written) =>
        \A c \in DOMAIN ota_channels :
            LET ps == ProgrammesOn(output.doc, ota_channels[c].id)
                today == SubSeq(Strftime_z(loc.start_time), 1, 8)
                midnight == Strftime_z(AddHours(ReplaceHM(loc.start_time, 0, 0).val, 24))
            IN  /\ ps # <<>>
                /\ ps[1].start = today \o <<"0","6","0","0","0","0"," ">>
                /\ \A i \in 2..Len(ps) : ps[i].start = ps[i-1].stop
                /\ \A i \in DOMAIN ps : SubSeq(ps[i].start, 1, 8) = today
                /\ NumAt(ps[Len(ps)].stop, 1, 8) >= NumAt(midnight, 1, 8)

\* ota_scraper has written a document in which the first channel has more
\* than one programme
C22_Witness ==
    /\ script = "ota" /\ Written
    /\ Len(ProgrammesOn(output.doc, ota_channels[1].id)) > 1

----------------------------------------------------------------------------
\* the instant of a naive datetime, in seconds
OtaInstant(dt) == dt.date * 86400 + dt.secs

\* C30: the fill loops of generate_ota_programming terminate for every
\* channel: every iteration moves current_time forward, because every
\* programme duration is positive, and the loop of a channel, once entered,
\* is eventually left with current_time off the starting date and at least
\* one programme added for the channel.
C30_FillLoopsTerminate ==
    /\ [][(pc = "programs" /\ pc' = "programs" /\ loc'.c = loc.c)
             => OtaInstant(loc'.current_time) > OtaInstant(loc.current_time)]_vars
    /\ \A c \in DOMAIN ota_channels :
          (pc = "programs" /\ loc.c = c)
             ~> (/\ pc = "programs" /\ loc.c = c
                 /\ ~SameDate(loc.current_time, loc.start_time)
                 /\ ProgrammesOn(root, ota_channels[c].id) # <<>>)

\* the loop of the last channel has been left
C30_Witness ==
    /\ script = "ota" /\ pc = "programs" /\ loc.c = Len(ota_channels)
    /\ ~SameDate(loc.current_time, loc.start_time)

----------------------------------------------------------------------------
\* the key of line 174
ProgramKey(prog) == <<prog.channel, prog.time, prog.title>>

\* the positions of a list that hold the first occurrence of their key
FirstPositions(programs) ==
    { i \in DOMAIN programs :
        \A j \in 1..(i - 1) : ProgramKey(programs[j]) # ProgramKey(programs[i]) }

\* the entries at the first positions, in the order of the list
FirstOccurrences(programs) ==
    LET first == FirstPositions(programs)
    IN  [k \in 1..Cardinality(first) |->
            programs[CHOOSE i \in first :
                        Cardinality({j \in first : j < i}) = k - 1]]

\* C23: extract_programs_from_page returns a list in which no two entries
\* share the (channel, time, title) triple; the list is the first occurrence
\* of each triple, in the original relative order; and de-duplicating the
\* result again changes nothing.
C23_DedupKeepsFirstOccurrences ==
    (script = "extract_programs_from_page" /\ pc = "return") =>
        LET unique_programs == loc.unique_programs
        IN  /\ \A i, j \in DOMAIN unique_programs :
                  ProgramKey(unique_programs[i]) = ProgramKey(unique_programs[j])
                     => i = j
            /\ unique_programs = FirstOccurrences(loc.programs)
            /\ extract_programs_from_page(unique_programs) = unique_programs

\* the function has returned on a list of the form a, b, a: a duplicate
\* that does not follow its first occurrence directly
C23_Witness ==
    /\ script = "extract_programs_from_page" /\ pc = "return"
    /\ Len(loc.programs) = 3
    /\ loc.programs[1] = loc.programs[3]
    /\ loc.programs[1] # loc.programs[2]
    /\ Len(loc.unique_programs) = 2

----------------------------------------------------------------------------
\* the positions of the calls of a run that shut the browser down
QuitPositions == { k \in DOMAIN calls : calls[k] = Quit }

\* C24: ModernZap2ItScraper.run releases the browser on every path: a run
\* that has ended after setup_driver created a driver (authentication
\* failed, extraction, build or save raised, or all succeeded) has called
\* driver.quit() exactly once, and nothing was asked of the browser after
\* the quit; a browser that has been quit belongs to a run that has ended.
C24_BrowserReleasedOnce ==
    script = "zap2it" =>
        /\ (pc = "done" /\ loc.driver # "none") =>
              /\ loc.driver = "quit"
              /\ QuitPositions = {Len(calls)}
        /\ (pc # "done" \/ loc.driver = "none") => QuitPositions = {}

\* a run whose build or save raised has ended with the browser created
C24_Witness ==
    /\ script = "zap2it" /\ pc = "done" /\ error = "exception"
    /\ loc.driver = "quit"

----------------------------------------------------------------------------
\* C25: extract_grid_data never returns guide data with a missing or empty
\* channel list and never propagates an exception: whatever the scrape comes
\* to, the step after a successful authenticate takes run to build_xmltv,
\* still running, with at least one channel in the guide data.
C25_ExtractAlwaysYieldsChannels ==
    [][(script = "zap2it" /\ pc = "extract")
          => (/\ pc' = "build"
              /\ exit_code' = Running /\ error' = "none"
              /\ loc'.guide_data # <<>>)]_vars

\* run is about to build the document from the sample data extract_grid_data
\* fell back to
C25_Witness ==
    /\ script = "zap2it" /\ pc = "build" /\ loc.driver = "open"
    /\ ~loc.live /\ loc.guide_data # <<>>

----------------------------------------------------------------------------
\* C26: in ontvtonight_auth_scraper every guide page request is preceded by
\* a login() that returned True: a run in which login() returned False (no
\* form, no username or password field, or a redirect back to the login
\* page) has ended with status 1, zero guide requests and no output; and the
\* credentials are posted only after a form with a username-like and a
\* password-like field was found on the login page.
C26_GuideOnlyAfterLogin ==
    script = "ontvtonight_auth" =>
        /\ \A k \in DOMAIN calls :
              IsPeriodGet(calls[k]) =>
                  /\ loc.login = "True"
                  /\ \E j \in 1..(k - 1) : calls[j] = Post(login_url)
        /\ loc.login = "False" =>
              /\ pc = "done" /\ exit_code = "1"
              /\ ~output.written
              /\ \A k \in DOMAIN calls : ~IsPeriodGet(calls[k])
        /\ \A k \in DOMAIN calls :
              calls[k] = Post(login_url) =>
                  /\ k > 1 /\ calls[k - 1] = Get(login_url)
                  /\ loc.page # <<>>
                  /\ loc.page[1].form
                  /\ loc.page[1].username_field /\ loc.page[1].password_field

\* login() has returned False after the credentials were posted
C26_Witness ==
    /\ script = "ontvtonight_auth" /\ loc.login = "False"
    /\ \E k \in DOMAIN calls : calls[k] = Post(login_url)

----------------------------------------------------------------------------
\* C27: every programme filter_san_diego_channels retains references a local
\* channel id for which a channel element is retained too, and that id is the
\* one given to the programme's own source channel: for every programme of
\* the feed that is retained, the feed holds the channel it refers to, and
\* that channel was matched to the same table entry as the programme.
C27_ProgrammesFollowTheirChannel ==
    (script = "epgshare" /\ Written /\ loc.filtered_content.some) =>
        /\ \A p \in DOMAIN ProgrammesOf(output.doc) :
              \E c \in DOMAIN ChannelsOf(output.doc) :
                  ChannelsOf(output.doc)[c].id = ProgrammesOf(output.doc)[p].channel
        /\ \A p \in DOMAIN loc.xmltv_content.programmes :
              LET programme == loc.xmltv_content.programmes[p]
              IN  EpgProgrammeIndex(programme) # 0 =>
                      \E c \in DOMAIN loc.xmltv_content.channels :
                          LET channel == loc.xmltv_content.channels[c]
                          IN  /\ channel.id = programme.channel
                              /\ EpgChannelIndex(channel)
                                    = EpgProgrammeIndex(programme)

----------------------------------------------------------------------------
\* no channel of a feed matches a San Diego call sign, by id or display name
NoChannelMatched(content) ==
    \A c \in DOMAIN content.channels :
        \A k \in DOMAIN san_diego_channels :
            ~EpgChannelMatches(san_diego_channels[k].call_sign,
                               content.channels[c].id,
                               Upper(JoinSpace(content.channels[c].names)))

\* C28: epgshare_scraper marks its degraded path: a run that fetched a feed
\* and has ended has written exactly one document, the fallback document
\* (source-info-name 'EPGShare San Diego Fallback') exactly when the feed
\* does not parse or none of its channels matched a San Diego call sign,
\* also when programmes matched, and the filtered document
\* (source-info-name 'EPGShare San Diego') otherwise.
C28_FallbackIsMarked ==
    (script = "epgshare" /\ pc = "done" /\ error = "none") =>
        LET content == loc.xmltv_content
            degraded == ~content.parses \/ NoChannelMatched(content)
        IN  /\ Written
            /\ output.doc.info \in {"EPGShare San Diego",
                                    "EPGShare San Diego Fallback"}
            /\ output.doc.info = "EPGShare San Diego Fallback" <=> degraded
            /\ degraded =>
                  \E now1 \in Clock : \E tick \in {0, 1} :
                      output.doc = EpgFallback(now1, AddSeconds(now1, tick))
            /\ ~degraded =>
                  /\ output.doc = root
                  /\ ChannelsOf(output.doc) # <<>>

\* the fallback document was written for a feed without a matching channel
\* in which a programme matched
C28_Witness ==
    /\ script = "epgshare" /\ pc = "done" /\ Written
    /\ output.doc.info = "EPGShare San Diego Fallback"
    /\ loc.xmltv_content.parses
    /\ \E p \in DOMAIN loc.xmltv_content.programmes :
          EpgProgrammeIndex(loc.xmltv_content.programmes[p]) # 0

----------------------------------------------------------------------------
\* a time of the form H:MM, optionally followed by AM or PM with or without
\* a space before it (the pattern of parse_table_listings, line 203), that
\* names a time of day: its parts
TimeHourText(s)   == Before(s, ":")
TimeMinuteText(s) == SubSeq(After(s, ":"), 1, 2)
TimeSuffix(s)     == Upper(Strip(SubSeq(After(s, ":"), 3, Len(After(s, ":")))))
TimeOfDayForm(s) ==
    /\ Len(TimeHourText(s)) \in 1..2
    /\ AllDigits(TimeHourText(s), 1, Len(TimeHourText(s)))
    /\ Len(TimeMinuteText(s)) = 2 /\ AllDigits(TimeMinuteText(s), 1, 2)
    /\ NumAt(TimeMinuteText(s), 1, 2) \in 0..59
    /\ TimeSuffix(s) \in {<<>>, <<"A","M">>, <<"P","M">>}
    /\ IF TimeSuffix(s) = <<>>
       THEN NumAt(TimeHourText(s), 1, Len(TimeHourText(s))) \in 0..23
       ELSE NumAt(TimeHourText(s), 1, Len(TimeHourText(s))) \in 1..12

\* the hour of the day such a time names
HourOfDay(s) ==
    LET h == NumAt(TimeHourText(s), 1, Len(TimeHourText(s)))
    IN  IF TimeSuffix(s) = <<"P","M">> THEN (IF h = 12 THEN 12 ELSE h + 12)
        ELSE IF TimeSuffix(s) = <<"A","M">> THEN (IF h = 12 THEN 0 ELSE h)
        ELSE h

\* C29: in create_xmltv_from_data every programme record with a title, a
\* mapped channel and a time of the form H:MM, optionally followed by AM or
\* PM with or without a space, yields a programme element whose start is on
\* the current day at the 24-hour value of that time: 12 AM is hour 0,
\* 12 PM is hour 12, h PM is hour h + 12.
C29_StartHourIsTimeOfDay ==
    (script = "ontvtonight_auth" /\ Written) =>
        \A i \in DOMAIN loc.all_programs :
            \A j \in DOMAIN loc.all_programs[i].programs :
                LET r == loc.all_programs[i].programs[j]
                IN  (/\ Strip(r.title) # <<>>
                     /\ Strip(r.channel) # <<>>
                     /\ AuthChannelIndex(Strip(r.channel)) # 0
                     /\ TimeOfDayForm(Strip(r.time)))
                    => \E k \in DOMAIN ProgrammesOf(output.doc) :
                         LET p == ProgrammesOf(output.doc)[k]
                         IN  /\ p.title = Strip(r.title)
                             /\ \E now \in Clock :
                                   SubSeq(p.start, 1, 8)
                                      = SubSeq(Strftime_z(now), 1, 8)
                             /\ SubSeq(p.start, 9, 12)
                                   = Pad(HourOfDay(Strip(r.time)), 2)
                                     \o TimeMinuteText(Strip(r.time))

============================================================================
